---- MODULE Spec2Model ----
(***************************************************************************)
(* A model of the [incr Tcl] ensemble registry (generic/itclEnsemble.c):   *)
(* the sorted part store of an ensemble, the abbreviation widths           *)
(* (minChars), the registry of ensembles keyed by command handle, the      *)
(* deletion of parts and ensembles, the `ensemble` / `part` definition     *)
(* verbs with their "current ensemble" context, and the unknown-handler.   *)
(*                                                                         *)
(* Strings are sequences of character codes (ASCII); a C string's          *)
(* terminating NUL is what CharAt gives past the end.  Array positions     *)
(* are 0-based as in the source: position pos is element parts[pos+1] of   *)
(* the TLA+ sequence.                                                      *)
(***************************************************************************)
EXTENDS Integers, Sequences, FiniteSets, TLC

(* ------------------------------------------------------------------ *)
(* Bounds of the model                                                 *)
(* ------------------------------------------------------------------ *)

\* Ensemble records ever allocated (CreateEnsemble counts failed calls too).
MaxEns == 2

\* Nesting depth of `ensemble` verb invocations being evaluated.
MaxDepth == 2

\* Calls of DeleteEnsemblePart one DeleteEnsemble loop is followed for.
MaxIter == 3

(* ------------------------------------------------------------------ *)
(* Program constants                                                   *)
(* ------------------------------------------------------------------ *)

NUL == 0

ITCL_ENSEMBLE_CUSTOM == 1

ITCL_ENSEMBLE_ENSEMBLE == 2

InitMaxParts == 10

(* ------------------------------------------------------------------ *)
(* Names used as inputs                                                *)
(* ------------------------------------------------------------------ *)

NameGet == <<103, 101, 116>>

NameGetall == <<103, 101, 116, 97, 108, 108>>

NameSet == <<115, 101, 116>>

NameAtError == <<64, 101, 114, 114, 111, 114>>

NameAtErrors == <<64, 101, 114, 114, 111, 114, 115>>

NameSum == <<115, 117, 109>>

NameA == <<97>>

NameBogus == <<98, 111, 103, 117, 115>>

\* Part names offered to the insert operations of the store.
PartNames == {NameSum, NameGet, NameGetall, NameSet}

NameAtErrorx == <<64, 101, 114, 114, 111, 114, 120>>

\* Part names offered where the unknown-handler is exercised.
ErrorNames == {NameAtError, NameAtErrors, NameAtErrorx, NameGet}

\* Part names offered where ensembles are deleted, and to the verbs.
FewNames == {NameGet, NameSet}

\* Names of top-level ensemble commands.
TopNames == {NameA}

\* Strings offered to the lookups: the part names and some abbreviations.
Queries ==
    {<<>>, <<103>>, <<103, 101>>, NameGet, <<103, 101, 116, 97>>,
     NameGetall, <<115>>, NameA}

(* ------------------------------------------------------------------ *)
(* C strings                                                           *)
(* ------------------------------------------------------------------ *)

\* s[i] of a NUL-terminated string, i counted from 1.
CharAt(s, i) == IF i <= Len(s) THEN s[i] ELSE NUL

RECURSIVE CmpFrom(_, _, _, _)
CmpFrom(a, b, i, n) ==
    IF i > n THEN 0
    ELSE IF CharAt(a, i) # CharAt(b, i)
         THEN (IF CharAt(a, i) < CharAt(b, i) THEN -1 ELSE 1)
         ELSE IF CharAt(a, i) = NUL THEN 0
              ELSE CmpFrom(a, b, i + 1, n)

\* strncmp(a, b, n): the sign of the comparison of the first n characters.
strncmp(a, b, n) == CmpFrom(a, b, 1, n)

\* strcmp(a, b).
strcmp(a, b) == CmpFrom(a, b, 1, Len(a) + Len(b) + 1)

\* strlen(s).
strlen(s) == Len(s)

(* ------------------------------------------------------------------ *)
(* Strings of the usage summary                                        *)
(* ------------------------------------------------------------------ *)

\* "area"
NameArea ==
    <<97, 114, 101, 97>>

\* "@itcl-builtin_info"
NameItclBuiltinInfo ==
    <<64, 105, 116, 99, 108, 45, 98, 117, 105, 108, 116, 105, 110, 95,
    105, 110, 102, 111>>

\* "r", the usage string of a part with one argument
UsageR ==
    <<114>>

\* usageInfo = NULL; an empty usage string is rendered the same way.
NoUsage == <<>>

\* The usage strings offered to Itcl_AddEnsemblePart.
UsageInfos == {NoUsage, UsageR}

\* Part names of the ensembles whose usage summary is rendered.
UsageNames == {NameArea, NameAtError, NameItclBuiltinInfo}

\* "  ", the initial value of spaces in GetEnsembleUsage
Spaces ==
    <<32, 32>>

\* "\n  ", the value of spaces after the first entry
NewlineSpaces ==
    <<10, 32, 32>>

\* "\n...and others described on the man page"
OthersLine ==
    <<10, 46, 46, 46, 97, 110, 100, 32, 111, 116, 104, 101, 114, 115, 32,
    100, 101, 115, 99, 114, 105, 98, 101, 100, 32, 111, 110, 32, 116, 104,
    101, 32, 109, 97, 110, 32, 112, 97, 103, 101>>

\* " option ?arg arg ...?"
OptionUsage ==
    <<32, 111, 112, 116, 105, 111, 110, 32, 63, 97, 114, 103, 32, 97, 114,
    103, 32, 46, 46, 46, 63>>

\* "wrong # args: should be one of...\n"
WrongArgs ==
    <<119, 114, 111, 110, 103, 32, 35, 32, 97, 114, 103, 115, 58, 32, 115,
    104, 111, 117, 108, 100, 32, 98, 101, 32, 111, 110, 101, 32, 111, 102,
    46, 46, 46, 10>>

\* "bad option \""
BadOption ==
    <<98, 97, 100, 32, 111, 112, 116, 105, 111, 110, 32, 34>>

\* "\": should be one of...\n"
ShouldBeOneOf ==
    <<34, 58, 32, 115, 104, 111, 117, 108, 100, 32, 98, 101, 32, 111, 110,
    101, 32, 111, 102, 46, 46, 46, 10>>

(* ------------------------------------------------------------------ *)
(* The part store: searches                                            *)
(* ------------------------------------------------------------------ *)

\* A part as CreateEnsemblePart leaves it: zeroed except for the name.
NewPart(partName) ==
    [name |-> partName, minChars |-> 0, cmdPtr |-> 0, flags |-> 0,
     clientData |-> 0, usage |-> NoUsage]

\* The comparison of one probe of FindEnsemblePartIndex's binary search.
IndexProbe(partName, name) ==
    IF CharAt(partName, 1) = CharAt(name, 1) THEN strcmp(partName, name)
    ELSE IF CharAt(partName, 1) < CharAt(name, 1) THEN -1
    ELSE 1

RECURSIVE IndexLoop(_, _, _, _)

\* What one turn of the binary search does with the comparison cmp at pos.
IndexStep(parts, partName, first, last, pos, cmp) ==
    IF cmp = 0 THEN [found |-> TRUE, pos |-> pos]
    ELSE IF cmp > 0 THEN IndexLoop(parts, partName, pos + 1, last)
    ELSE IndexLoop(parts, partName, first, pos - 1)

\* while (last >= first): when the loop ends without a match, pos = first.
IndexLoop(parts, partName, first, last) ==
    IF last < first THEN [found |-> FALSE, pos |-> first]
    ELSE IndexStep(parts, partName, first, last, (first + last) \div 2,
                   IndexProbe(partName,
                              parts[((first + last) \div 2) + 1].name))

\* FindEnsemblePartIndex: exact match by binary search; pos is the index of
\* the match, or the index where the name belongs.
FindEnsemblePartIndex(parts, partName) ==
    IndexLoop(parts, partName, 0, Len(parts) - 1)

\* The comparison of one probe of FindEnsemblePart's binary search.
PrefixProbe(partName, name, nlen) ==
    IF CharAt(partName, 1) = CharAt(name, 1) THEN strncmp(partName, name, nlen)
    ELSE IF CharAt(partName, 1) < CharAt(name, 1) THEN -1
    ELSE 1

RECURSIVE PrefixLoop(_, _, _, _, _)

PrefixStep(parts, partName, nlen, first, last, pos, cmp) ==
    IF cmp = 0 THEN [found |-> TRUE, pos |-> pos]
    ELSE IF cmp > 0 THEN PrefixLoop(parts, partName, nlen, pos + 1, last)
    ELSE PrefixLoop(parts, partName, nlen, first, pos - 1)

\* while (last >= first): some part that has partName as a prefix, if any.
PrefixLoop(parts, partName, nlen, first, last) ==
    IF last < first THEN [found |-> FALSE, pos |-> 0]
    ELSE PrefixStep(parts, partName, nlen, first, last,
                    (first + last) \div 2,
                    PrefixProbe(partName,
                                parts[((first + last) \div 2) + 1].name,
                                nlen))

\* A faulty variant of ScanBack: the scan is left out.
ScanBackNone(parts, partName, nlen, pos) == pos

\* The backward scan to the top-most part that still matches.
RECURSIVE ScanBack(_, _, _, _)
ScanBack(parts, partName, nlen, pos) ==
    IF pos > 0
    THEN IF strncmp(partName, parts[pos].name, nlen) # 0 THEN pos
         ELSE ScanBack(parts, partName, nlen, pos - 1)
    ELSE pos

\* A faulty variant of Candidates: the scan does not stop at the first part
\* that does not match.
CandidatesToEnd(parts, partName, nlen, i) ==
    [k \in 1..(Len(parts) - i) |-> parts[i + k].name]

\* The forward scan that lists the candidates of an ambiguous abbreviation.
RECURSIVE Candidates(_, _, _, _)
Candidates(parts, partName, nlen, i) ==
    IF i < Len(parts) /\ strncmp(partName, parts[i + 1].name, nlen) = 0
    THEN <<parts[i + 1].name>> \o Candidates(parts, partName, nlen, i + 1)
    ELSE <<>>

\* A faulty variant of FindEnsemblePartAt: the top-most match is returned
\* however short the abbreviation is.
FindEnsemblePartAtOnce(parts, partName, nlen, pos) ==
    [status |-> "OK", pos |-> pos, cands |-> <<>>]

\* The end of FindEnsemblePart, pos being the top-most match: the part, or
\* the "ambiguous option" error when the abbreviation is still too short.
FindEnsemblePartAt(parts, partName, nlen, pos) ==
    IF nlen < parts[pos + 1].minChars
    THEN [status |-> "ERROR", pos |-> -1,
          cands |-> Candidates(parts, partName, nlen, pos)]
    ELSE [status |-> "OK", pos |-> pos, cands |-> <<>>]

\* A faulty variant of FindEnsemblePartFrom: the part the binary search
\* hit is taken for the top-most match.
FindEnsemblePartFromHit(parts, partName, nlen, hit) ==
    IF ~hit.found THEN [status |-> "OK", pos |-> -1, cands |-> <<>>]
    ELSE FindEnsemblePartAt(parts, partName, nlen, hit.pos)

\* FindEnsemblePart after its binary search has ended with hit.
FindEnsemblePartFrom(parts, partName, nlen, hit) ==
    IF ~hit.found THEN [status |-> "OK", pos |-> -1, cands |-> <<>>]
    ELSE FindEnsemblePartAt(parts, partName, nlen,
             IF nlen < parts[hit.pos + 1].minChars
             THEN ScanBack(parts, partName, nlen, hit.pos)
             ELSE hit.pos)

\* FindEnsemblePart: lookup by abbreviation.  status is TCL_OK or TCL_ERROR
\* (ambiguous); pos is the index of the part returned, -1 for NULL; cands
\* are the names listed by the "ambiguous option" message.
FindEnsemblePart(parts, partName) ==
    FindEnsemblePartFrom(parts, partName, strlen(partName),
        PrefixLoop(parts, partName, strlen(partName), 0, Len(parts) - 1))

(* ------------------------------------------------------------------ *)
(* The part store: abbreviation widths, insertion                      *)
(* ------------------------------------------------------------------ *)

\* A faulty variant of MinLoop: the loop ends after its first turn.
MinLoopOnce(p, q, min) ==
    IF CharAt(p, min) = CharAt(q, min) /\ CharAt(p, min) # NUL
       /\ CharAt(q, min) # NUL
    THEN min + 1
    ELSE min

\* The counter `min` after the loop that walks two names while they agree.
RECURSIVE MinLoop(_, _, _)
MinLoop(p, q, min) ==
    IF CharAt(p, min) = CharAt(q, min) /\ CharAt(p, min) # NUL
       /\ CharAt(q, min) # NUL
    THEN MinLoop(p, q, min + 1)
    ELSE min

\* parts[pos]->minChars = v.
SetMinChars(parts, pos, v) == [parts EXCEPT ![pos + 1].minChars = v]

\* if (min > parts[pos]->minChars) parts[pos]->minChars = min.
RaiseMinChars(parts, pos, min) ==
    IF min > parts[pos + 1].minChars THEN SetMinChars(parts, pos, min)
    ELSE parts

\* A faulty variant of MinCharsPrev: the neighbour at pos-1 is ignored.
MinCharsPrevSkipped(parts, pos) == parts

\* The comparison against the neighbour at pos-1, if there is one.
MinCharsPrev(parts, pos) ==
    IF pos - 1 >= 0
    THEN RaiseMinChars(parts, pos,
                       MinLoop(parts[pos + 1].name, parts[pos].name, 1))
    ELSE parts

\* A faulty variant of MinCharsNext: the neighbour at pos+1 is ignored.
MinCharsNextSkipped(parts, pos) == parts

\* The comparison against the neighbour at pos+1, if there is one.
MinCharsNext(parts, pos) ==
    IF pos + 1 < Len(parts)
    THEN RaiseMinChars(parts, pos,
                       MinLoop(parts[pos + 1].name, parts[pos + 2].name, 1))
    ELSE parts

\* A faulty variant of MinCharsCap: the cap is left out.
MinCharsUncapped(parts, pos) == parts

\* if (parts[pos]->minChars > max) parts[pos]->minChars = max.
MinCharsCap(parts, pos) ==
    IF parts[pos + 1].minChars > strlen(parts[pos + 1].name)
    THEN SetMinChars(parts, pos, strlen(parts[pos + 1].name))
    ELSE parts

\* ComputeMinChars: the store with parts[pos].minChars recomputed against
\* the two neighbours of pos; nothing changes when pos is out of range.
ComputeMinChars(parts, pos) ==
    IF pos < 0 \/ pos >= Len(parts) THEN parts
    ELSE MinCharsCap(
             MinCharsNext(MinCharsPrev(SetMinChars(parts, pos, 1), pos), pos),
             pos)

\* A faulty variant of InsertAt: the new part goes to the end of the array.
InsertAtEnd(parts, pos, part) == Append(parts, part)

\* The array after the shift loop and the store of the new part at pos.
InsertAt(parts, pos, part) ==
    SubSeq(parts, 1, pos) \o <<part>> \o SubSeq(parts, pos + 1, Len(parts))

\* A faulty variant of RemoveAt: after the gap is closed the width of the
\* part that moved into it is recomputed.
RemoveAtRecomputed(parts, pos) ==
    ComputeMinChars(SubSeq(parts, 1, pos)
                        \o SubSeq(parts, pos + 2, Len(parts)), pos - 1)

\* The array after the shift loop that closes the gap at pos.
RemoveAt(parts, pos) ==
    SubSeq(parts, 1, pos) \o SubSeq(parts, pos + 2, Len(parts))

\* A faulty variant of CreateEnsemblePartAt: the part is inserted even when
\* the name exists.
CreateEnsemblePartAnyway(ensData, partName, at) ==
    [status |-> "OK",
     ensData |->
         [ensData EXCEPT
             !.parts = ComputeMinChars(
                           ComputeMinChars(
                               ComputeMinChars(
                                   InsertAt(ensData.parts, at.pos,
                                            NewPart(partName)),
                                   at.pos),
                               at.pos - 1),
                           at.pos + 1)],
     pos |-> at.pos]

\* A faulty variant of CreateEnsemblePartAt: only the new part's width is
\* computed, the two neighbours keep the widths they had.
CreateEnsemblePartAtOwnWidth(ensData, partName, at) ==
    IF at.found
    THEN [status |-> "ERROR", ensData |-> ensData, pos |-> at.pos]
    ELSE [status |-> "OK",
          ensData |->
              [ensData EXCEPT
                  !.parts = ComputeMinChars(
                                InsertAt(ensData.parts, at.pos,
                                         NewPart(partName)),
                                at.pos),
                  !.maxParts = IF Len(ensData.parts) >= ensData.maxParts
                               THEN 2 * ensData.maxParts
                               ELSE ensData.maxParts],
          pos |-> at.pos]

\* CreateEnsemblePart after FindEnsemblePartIndex has answered at.
CreateEnsemblePartAt(ensData, partName, at) ==
    IF at.found
    THEN [status |-> "ERROR", ensData |-> ensData, pos |-> at.pos]
    ELSE [status |-> "OK",
          ensData |->
              [ensData EXCEPT
                  !.parts = ComputeMinChars(
                                ComputeMinChars(
                                    ComputeMinChars(
                                        InsertAt(ensData.parts, at.pos,
                                                 NewPart(partName)),
                                        at.pos),
                                    at.pos - 1),
                                at.pos + 1),
                  !.maxParts = IF Len(ensData.parts) >= ensData.maxParts
                               THEN 2 * ensData.maxParts
                               ELSE ensData.maxParts],
          pos |-> at.pos]

\* A faulty variant of CreateEnsemblePart: the array is never doubled.
CreateEnsemblePartNoRoom(ensData, partName) ==
    [CreateEnsemblePartAt(ensData, partName,
                          FindEnsemblePartIndex(ensData.parts, partName))
        EXCEPT !.ensData.maxParts = ensData.maxParts]

\* CreateEnsemblePart on an Ensemble record: TCL_ERROR and the record
\* untouched when the name exists, else the record with the part inserted
\* at its sorted position and the three widths recomputed.
CreateEnsemblePart(ensData, partName) ==
    CreateEnsemblePartAt(ensData, partName,
                         FindEnsemblePartIndex(ensData.parts, partName))

(* ------------------------------------------------------------------ *)
(* State                                                               *)
(* ------------------------------------------------------------------ *)

VARIABLES
    ens,            \* the Ensemble records, by ensembleId (a sequence)
    numEnsembles,   \* ensembleInfo->numEnsembles, the id counter
    ensembles,      \* ensembleInfo->ensembles: command handle -> Ensemble
    cmds,           \* the host's commands: handle -> [ns, name, freed]
    parserEnsData,  \* EnsembleParser.ensData, 0 for NULL
    frames,         \* the Itcl_EnsembleCmd invocations being evaluated
    del,            \* the DeleteEnsemble call in progress, if any
    last            \* the operation that returned last, and its result

vars == <<ens, numEnsembles, ensembles, cmds, parserEnsData, frames, del,
          last>>

\* The registry part of the state, as one value the operations transform.
\* A command handle is written as the ensembleId of the Ensemble record it
\* was created for: CreateEnsemble creates at most one command per record.
World ==
    [ens |-> ens, numEnsembles |-> numEnsembles, ensembles |-> ensembles,
     cmds |-> cmds]

SetWorld(w) ==
    /\ ens' = w.ens
    /\ numEnsembles' = w.numEnsembles
    /\ ensembles' = w.ensembles
    /\ cmds' = w.cmds

NoParent == [ens |-> 0, name |-> <<>>]

NoDel == [e |-> 0, calls |-> 0, start |-> 0]

\* The result and error state of the interpreter: the messages appended
\* to its result since the host reset it.
NoResult == [result |-> <<>>]

\* Tcl_AppendToObj(Tcl_GetObjResult(interp), msg, -1) and its like.
AppendResult(interp, msg) == [interp EXCEPT !.result = Append(@, msg)]

\* What an operation leaves in the interpreter when the host evaluates it
\* as a command, the result reset before: its message if it fails.
Leaves(status, kind) ==
    IF status = "ERROR" THEN AppendResult(NoResult, kind) ELSE NoResult

\* What an operation reports: its name, the ensemble and the name it was
\* given, the Tcl status, the kind of result or message, for lookups the
\* position found and the candidates listed, and the state it leaves the
\* interpreter in.
Obs(op, e, name, status, kind, pos, cands) ==
    [op |-> op, e |-> e, name |-> name, status |-> status, kind |-> kind,
     pos |-> pos, cands |-> cands, interp |-> Leaves(status, kind)]

\* A record as CreateEnsemble allocates it (memset to 0, maxParts = 10).
\* removed is a history flag: a part has been taken out of this store.
FreshEnsemble ==
    [ensembleId |-> 0, parts |-> <<>>, maxParts |-> InitMaxParts,
     cmd |-> 0, parent |-> NoParent, freed |-> FALSE, removed |-> FALSE]

(* ------------------------------------------------------------------ *)
(* The host (Tcl) as this file uses it                                 *)
(* ------------------------------------------------------------------ *)

\* Tcl_FindCommand / Tcl_FindEnsemble / Tcl_GetCommandFromObj: the handle
\* of the command with this name, 0 for NULL.
HostFind(c, ns, name) ==
    IF \E h \in DOMAIN c : c[h].ns = ns /\ c[h].name = name
    THEN CHOOSE h \in DOMAIN c : c[h].ns = ns /\ c[h].name = name
    ELSE 0

\* Tcl_CreateEnsemble: a command of that name is created under handle h; a
\* command that already has the name is deleted first.
HostCreate(c, h, ns, name) ==
    LET kept == {x \in DOMAIN c : ~(c[x].ns = ns /\ c[x].name = name)}
    IN  (h :> [ns |-> ns, name |-> name, freed |-> FALSE])
            @@ [x \in kept |-> c[x]]

\* Tcl_GetCommandInfoFromToken: 0 for a NULL token, 1 otherwise.
GetCommandInfoFromToken(c, cmdPtr) == IF cmdPtr = 0 THEN 0 ELSE 1

\* Tcl_FindHashEntry on the handle map: the Ensemble, 0 for no entry.
HashFind(map, h) == IF h \in DOMAIN map THEN map[h] ELSE 0

(* ------------------------------------------------------------------ *)
(* Ensembles: creation, lookup by path                                 *)
(* ------------------------------------------------------------------ *)

\* What the host does when CreateEnsemble installs the command: "ok";
\* "nohash", Tcl_CreateHashEntry gives NULL; "nohandler",
\* Tcl_SetEnsembleUnknownHandler fails.
HostOk == "ok"

Installs == {"ok", "nohash", "nohandler"}

\* The handle map after CreateEnsemble's Tcl_CreateHashEntry and
\* Tcl_SetHashValue for the command and record id.
HashCreate(map, id, host) ==
    IF host = "nohash" THEN map ELSE (id :> id) @@ map

\* CreateEnsemble with parentEnsData = NULL: record id is allocated, the
\* command of the ensemble is created and entered in the handle map.  When
\* an installation step fails TCL_ERROR is returned at once: what was done
\* stays done.
CreateEnsembleTop(w, ensName, id, host) ==
    [status |-> IF host = HostOk THEN "OK" ELSE "ERROR",
     w |-> [ens |-> Append(w.ens, [FreshEnsemble EXCEPT
                                      !.ensembleId = id, !.cmd = id]),
            numEnsembles |-> id,
            ensembles |-> HashCreate(w.ensembles, id, host),
            cmds |-> HostCreate(w.cmds, id, 0, ensName)]]

\* The record of a sub-ensemble as CreateEnsemble leaves it: cmd and
\* parent are set last, after every installation step.
SubEnsemble(parent, ensName, id, host) ==
    IF host = HostOk
    THEN [FreshEnsemble EXCEPT
             !.ensembleId = id, !.cmd = id,
             !.parent = [ens |-> parent, name |-> ensName]]
    ELSE [FreshEnsemble EXCEPT !.ensembleId = id]

\* A faulty variant of CreateEnsembleSub: when CreateEnsemblePart fails the
\* counter numEnsembles is put back, and the id is given out again.
CreateEnsembleSubGivesBack(w, parent, ensName, id, r, host) ==
    IF r.status # "OK"
    THEN [status |-> "ERROR",
          w |-> [w EXCEPT
                   !.ens = Append(w.ens, [FreshEnsemble EXCEPT
                                             !.ensembleId = id,
                                             !.freed = TRUE])]]
    ELSE [status |-> IF host = HostOk THEN "OK" ELSE "ERROR",
          w |-> [ens |-> Append(
                     [w.ens EXCEPT ![parent] =
                         [r.ensData EXCEPT !.parts[r.pos + 1].cmdPtr = id]],
                     SubEnsemble(parent, ensName, id, host)),
                 numEnsembles |-> id,
                 ensembles |-> HashCreate(w.ensembles, id, host),
                 cmds |-> HostCreate(w.cmds, id, parent, ensName)]]

\* CreateEnsemble with a parent, r being what CreateEnsemblePart answered.
\* On its failure DeleteEnsemble(ensData) finds no parts and frees the
\* record; when a later installation step fails TCL_ERROR is returned at
\* once: the gateway part and what else was done stay.
CreateEnsembleSub(w, parent, ensName, id, r, host) ==
    IF r.status # "OK"
    THEN [status |-> "ERROR",
          w |-> [w EXCEPT
                   !.ens = Append(w.ens, [FreshEnsemble EXCEPT
                                             !.ensembleId = id,
                                             !.freed = TRUE]),
                   !.numEnsembles = id]]
    ELSE [status |-> IF host = HostOk THEN "OK" ELSE "ERROR",
          w |-> [ens |-> Append(
                     [w.ens EXCEPT ![parent] =
                         [r.ensData EXCEPT !.parts[r.pos + 1].cmdPtr = id]],
                     SubEnsemble(parent, ensName, id, host)),
                 numEnsembles |-> id,
                 ensembles |-> HashCreate(w.ensembles, id, host),
                 cmds |-> HostCreate(w.cmds, id, parent, ensName)]]

\* CreateEnsemble(interp, parentEnsData, ensName); parent = 0 for NULL.
\* The id of the record is the counter numEnsembles after its increment.
CreateEnsemble(w, parent, ensName, host) ==
    IF parent = 0
    THEN CreateEnsembleTop(w, ensName, w.numEnsembles + 1, host)
    ELSE CreateEnsembleSub(w, parent, ensName, w.numEnsembles + 1,
                           CreateEnsemblePart(w.ens[parent], ensName), host)

\* What FindEnsemble answers: the status, *ensDataPtr, and the message it
\* appended to the result of the interpreter ("" for none).
Found(status, ensData, msg) ==
    [status |-> status, ensData |-> ensData, msg |-> msg]

\* cmdInfo.objClientData of the command of a sub-ensemble.  CreateEnsemble
\* gives Tcl_CreateEnsemble no client data: what the host keeps there is
\* its own record of the command, which is no Ensemble.  Pointers to such
\* records are written as negative numbers, Ensemble pointers as ids.
ObjClientData(c, cmdPtr) == 0 - cmdPtr

RECURSIVE FindEnsembleFrom(_, _, _, _)

\* A faulty variant of FindEnsembleNext: a name that no part has is passed
\* over, and the loop goes on in the same ensemble.
FindEnsembleNextPassesOver(w, nameArgv, i, ensData, r) ==
    IF r.status # "OK" THEN Found("ERROR", 0, "ambiguous")
    ELSE IF r.pos < 0 THEN FindEnsembleFrom(w, nameArgv, i + 1, ensData)
    ELSE IF w.ens[ensData].parts[r.pos + 1].cmdPtr = 0
    THEN Found("ERROR", 0, "notensemble")
    ELSE FindEnsembleFrom(w, nameArgv, i + 1,
             ObjClientData(w.cmds, w.ens[ensData].parts[r.pos + 1].cmdPtr))

\* One turn of FindEnsemble's loop over the sub-ensemble names, r being
\* what FindEnsemblePart answered for nameArgv[i] in ensData.
FindEnsembleNext(w, nameArgv, i, ensData, r) ==
    IF r.status # "OK" THEN Found("ERROR", 0, "ambiguous")
    ELSE IF r.pos < 0 THEN Found("ERROR", 0, "invalid")
    ELSE IF w.ens[ensData].parts[r.pos + 1].cmdPtr = 0
    THEN Found("ERROR", 0, "notensemble")
    ELSE FindEnsembleFrom(w, nameArgv, i + 1,
             ObjClientData(w.cmds, w.ens[ensData].parts[r.pos + 1].cmdPtr))

\* FindEnsemble's loop from nameArgv[i] on (i counted from 1 here).  A
\* further turn on a pointer that is no Ensemble is undefined.
FindEnsembleFrom(w, nameArgv, i, ensData) ==
    IF i > Len(nameArgv) THEN Found("OK", ensData, "")
    ELSE IF ensData <= 0 THEN Found("UNDEFINED", ensData, "")
    ELSE FindEnsembleNext(w, nameArgv, i, ensData,
             FindEnsemblePart(w.ens[ensData].parts, nameArgv[i]))

\* FindEnsemble once Tcl_FindEnsemble has answered cmdPtr for nameArgv[0].
FindEnsembleCmd(w, nameArgv, cmdPtr) ==
    IF cmdPtr = 0 THEN Found("ERROR", 0, "notensemble")
    ELSE IF HashFind(w.ensembles, cmdPtr) = 0
    THEN Found("ERROR", 0, "notensemble")
    ELSE FindEnsembleFrom(w, nameArgv, 2, HashFind(w.ensembles, cmdPtr))

\* FindEnsemble(interp, nameArgv, nameArgc, &ensData): the top-level
\* ensemble is found through its command and the handle map, each further
\* name through the part of that name and the client data of its command.
\* TCL_ERROR when the path is empty, the command is missing or not
\* registered, or a name is ambiguous, missing or no sub-ensemble.
FindEnsemble(w, nameArgv) ==
    IF Len(nameArgv) < 1 THEN Found("ERROR", 0, "invalid")
    ELSE FindEnsembleCmd(w, nameArgv, HostFind(w.cmds, 0, nameArgv[1]))

\* A faulty variant of AddEnsemblePartTo: the client data is not stored.
AddEnsemblePartToNoData(w, e, usageInfo, clientData, flags, hostOk, r) ==
    IF r.status # "OK" THEN [status |-> "ERROR", w |-> w]
    ELSE [status |-> IF hostOk THEN "OK" ELSE "ERROR",
          w |-> [w EXCEPT !.ens[e] =
                    [r.ensData EXCEPT
                        !.parts[r.pos + 1].usage = usageInfo,
                        !.parts[r.pos + 1].flags = flags]]]

\* AddEnsemblePart, r being what CreateEnsemblePart answered.
AddEnsemblePartTo(w, e, usageInfo, clientData, flags, hostOk, r) ==
    IF r.status # "OK" THEN [status |-> "ERROR", w |-> w]
    ELSE [status |-> IF hostOk THEN "OK" ELSE "ERROR",
          w |-> [w EXCEPT !.ens[e] =
                    [r.ensData EXCEPT
                        !.parts[r.pos + 1].usage = usageInfo,
                        !.parts[r.pos + 1].clientData = clientData,
                        !.parts[r.pos + 1].flags = flags]]]

\* AddEnsemblePart: insert, then fill in the handler and create the part's
\* command; hostOk is whether Tcl_CreateObjCommand returned a command.
\* The command is not stored in the part: its cmdPtr stays NULL.  When
\* the host returns no command the procedure returns TCL_ERROR at once and
\* the part it inserted stays in the store.
AddEnsemblePart(w, e, partName, usageInfo, clientData, flags, hostOk) ==
    AddEnsemblePartTo(w, e, usageInfo, clientData, flags, hostOk,
                      CreateEnsemblePart(w.ens[e], partName))

(* ------------------------------------------------------------------ *)
(* Deletion                                                            *)
(* ------------------------------------------------------------------ *)

\* The second half of DeleteEnsemblePart: the part's command is freed and,
\* if FindEnsemblePartIndex finds the part by name, the gap is closed.
RemoveEnsemblePart(w, e, part, at) ==
    IF at.found
    THEN [w EXCEPT !.cmds[part.cmdPtr].freed = TRUE,
                   !.ens[e].parts = RemoveAt(@, at.pos),
                   !.ens[e].removed = TRUE]
    ELSE [w EXCEPT !.cmds[part.cmdPtr].freed = TRUE]

\* DeleteEnsemblePart(ensPart), ensPart being part of ensemble e.  A part
\* whose cmdPtr is NULL makes Tcl_GetCommandInfoFromToken return 0 and the
\* procedure return at once.
DeleteEnsemblePartOf(w, e, part) ==
    IF GetCommandInfoFromToken(w.cmds, part.cmdPtr) # 1 THEN w
    ELSE RemoveEnsemblePart(w, e, part,
             FindEnsemblePartIndex(w.ens[e].parts, part.name))

\* DeleteEnsemblePart(ensPart) for the part at position pos of ensemble e.
DeleteEnsemblePart(w, e, pos) ==
    DeleteEnsemblePartOf(w, e, w.ens[e].parts[pos + 1])

\* The host still has the command behind handle h.
HandleLive(w, h) ==
    IF h \in DOMAIN w.cmds THEN ~w.cmds[h].freed ELSE FALSE

\* DeleteEnsemblePart reads the command behind a non-NULL cmdPtr: that is
\* defined only while the host still has the command.
DeleteDefined(w, e, pos) ==
    IF w.ens[e].parts[pos + 1].cmdPtr = 0 THEN TRUE
    ELSE HandleLive(w, w.ens[e].parts[pos + 1].cmdPtr)

(* ------------------------------------------------------------------ *)
(* Usage summaries                                                     *)
(* ------------------------------------------------------------------ *)

\* Tcl_DStringAppendElement: the element, after a space when the buffer
\* holds something already (names of the model need no quoting).
AppendElement(buffer, element) ==
    IF buffer = <<>> THEN element ELSE buffer \o <<32>> \o element

\* The ensemble GetEnsemblePartUsage reaches by following ensData->parent
\* to the top.
RECURSIVE TopEnsemble(_, _)
TopEnsemble(w, e) ==
    IF w.ens[e].parent = NoParent THEN e
    ELSE TopEnsemble(w, w.ens[e].parent.ens)

\* The trail of GetEnsemblePartUsage for a part called name of ensemble
\* e: part, part->ensemble->parent, and so on, each inserted at the front.
RECURSIVE Trail(_, _, _)
Trail(w, e, name) ==
    IF w.ens[e].parent = NoParent THEN <<name>>
    ELSE Append(Trail(w, w.ens[e].parent.ens, w.ens[e].parent.name), name)

\* The elements of a trail appended to the buffer, from the i-th on.
RECURSIVE AppendTrail(_, _, _)
AppendTrail(buffer, trail, i) ==
    IF i > Len(trail) THEN buffer
    ELSE AppendTrail(AppendElement(buffer, trail[i]), trail, i + 1)

\* What GetEnsemblePartUsage appends after the trail: the usage string of
\* the part, or the fixed suffix when the part's command is an ensemble.
PartUsageSuffix(part) ==
    IF part.usage # <<>> THEN <<32>> \o part.usage
    ELSE IF part.cmdPtr # 0 THEN OptionUsage
    ELSE <<>>

\* A faulty variant of GetEnsemblePartUsage: the name of the top-level
\* command is appended after the trail.
GetEnsemblePartUsageTopLast(w, e, part) ==
    AppendElement(AppendTrail(<<>>, Trail(w, e, part.name), 1),
                  w.cmds[w.ens[TopEnsemble(w, e)].cmd].name)
        \o PartUsageSuffix(part)

\* GetEnsemblePartUsage for a part of ensemble e: what it appends.
GetEnsemblePartUsage(w, e, part) ==
    AppendTrail(AppendElement(<<>>,
                              w.cmds[w.ens[TopEnsemble(w, e)].cmd].name),
                Trail(w, e, part.name), 1)
        \o PartUsageSuffix(part)

\* The loop of GetEnsembleUsage from part i on (counted from 0), and what
\* follows it.
RECURSIVE UsageLoop(_, _, _, _, _, _)
UsageLoop(w, e, i, objPtr, spaces, isOpenEnded) ==
    IF i >= Len(w.ens[e].parts)
    THEN (IF isOpenEnded = 1 THEN objPtr \o OthersLine ELSE objPtr)
    ELSE IF CharAt(w.ens[e].parts[i + 1].name, 1) = 64
            /\ strcmp(w.ens[e].parts[i + 1].name, NameAtError) = 0
    THEN UsageLoop(w, e, i + 1, objPtr, spaces, 1)
    ELSE IF CharAt(w.ens[e].parts[i + 1].name, 1) = 64
            /\ strcmp(w.ens[e].parts[i + 1].name, NameItclBuiltinInfo) = 0
    THEN UsageLoop(w, e, i + 1, objPtr, spaces, isOpenEnded)
    ELSE UsageLoop(w, e, i + 1,
                   objPtr \o spaces
                          \o GetEnsemblePartUsage(w, e, w.ens[e].parts[i + 1]),
                   NewlineSpaces, isOpenEnded)

\* A faulty variant of GetEnsembleUsage: isOpenEnded starts at 1.
GetEnsembleUsageOpen(w, e, objPtr) == UsageLoop(w, e, 0, objPtr, Spaces, 1)

\* GetEnsembleUsage(interp, ensData, objPtr): objPtr with the summary
\* appended.
GetEnsembleUsage(w, e, objPtr) == UsageLoop(w, e, 0, objPtr, Spaces, 0)

\* GetEnsembleUsage reads the command of the top-level ensemble, the
\* command of every gateway part and the parts ensData->parent leads
\* through: they must not have been freed.
RECURSIVE UsageDefined(_, _)
UsageDefined(w, e) ==
    /\ \A i \in 1..Len(w.ens[e].parts) :
           IF w.ens[e].parts[i].cmdPtr = 0 THEN TRUE
           ELSE HandleLive(w, w.ens[e].parts[i].cmdPtr)
    /\ IF w.ens[e].parent = NoParent THEN HandleLive(w, w.ens[e].cmd)
       ELSE /\ ~w.ens[w.ens[e].parent.ens].freed
            /\ \E i \in 1..Len(w.ens[w.ens[e].parent.ens].parts) :
                   w.ens[w.ens[e].parent.ens].parts[i].name
                       = w.ens[e].parent.name
            /\ UsageDefined(w, w.ens[e].parent.ens)

(* ------------------------------------------------------------------ *)
(* Operations of the registry                                          *)
(* ------------------------------------------------------------------ *)

\* No DeleteEnsemble loop is running and the process has not aborted.
Ready == del.e = 0 /\ last.status # "PANIC"

\* The body being evaluated, if any, has not stopped on an error.
BodyRuns == IF frames = <<>> THEN TRUE ELSE ~frames[Len(frames)].err

\* A faulty variant of MarkErr: the failure of a verb is swallowed and the
\* body goes on.
MarkErrDropped(fr) == fr

\* The evaluation of the innermost body stops: one of its verbs failed.
MarkErr(fr) ==
    IF fr = <<>> THEN fr ELSE [fr EXCEPT ![Len(fr)].err = TRUE]

\* An Ensemble pointer that can be used: a record that was not freed.
Usable(w, e) == e \in 1..Len(w.ens) /\ ~w.ens[e].freed

\* The host can look the generated sub-ensemble name up: no command of
\* that name was freed behind the host's back.
NameDefined(w, ns, name) ==
    \A h \in DOMAIN w.cmds :
        (w.cmds[h].ns = ns /\ w.cmds[h].name = name) => ~w.cmds[h].freed

\* Paths offered to Itcl_CreateEnsemble: empty, a top-level name, or a
\* top-level name and a sub-ensemble name out of names.
CreatePaths(names) ==
    {<<>>} \cup {<<t>> : t \in TopNames}
           \cup {<<t, n>> : t \in TopNames, n \in names}

\* Paths offered to Itcl_AddEnsemblePart.
PartPaths == {<<>>} \cup {<<t>> : t \in TopNames}

\* CreateEnsemble with a parent pointer that is no Ensemble (FindEnsemble
\* took it from the client data of a command): what CreateEnsemblePart
\* reads and writes there is undefined.  The record has been allocated and
\* the counter incremented before; outcome is what comes of the rest: the
\* program crashes, the part is reported as existing, or the part is
\* written into the host's memory and the ensemble installed.
CreateEnsembleUndefined(w, parent, ensName, id, outcome) ==
    IF outcome = "crash" THEN [status |-> "PANIC", w |-> w]
    ELSE IF outcome = "exists"
    THEN [status |-> "ERROR",
          w |-> [w EXCEPT
                   !.ens = Append(w.ens, [FreshEnsemble EXCEPT
                                             !.ensembleId = id,
                                             !.freed = TRUE]),
                   !.numEnsembles = id]]
    ELSE [status |-> "OK",
          w |-> [ens |-> Append(w.ens,
                            SubEnsemble(parent, ensName, id, HostOk)),
                 numEnsembles |-> id,
                 ensembles |-> HashCreate(w.ensembles, id, HostOk),
                 cmds |-> HostCreate(w.cmds, id, parent, ensName)]]

\* The ways what is undefined can come out for a creation whose
\* FindEnsemble answered f.
CreateOutcomes(f) ==
    IF f.status = "OK" /\ f.ensData < 0 THEN {"crash", "exists", "created"}
    ELSE {"defined"}

\* The end of Itcl_CreateEnsemble for a path of more than one name, f
\* being what FindEnsemble answered for the names before the last.
CreateEnsembleIn(w, f, ensName, host, outcome) ==
    IF f.status # "OK" THEN [status |-> "ERROR", w |-> w]
    ELSE IF f.ensData < 0
    THEN CreateEnsembleUndefined(w, f.ensData, ensName,
                                 w.numEnsembles + 1, outcome)
    ELSE CreateEnsemble(w, f.ensData, ensName, host)

\* Itcl_CreateEnsemble reads the record FindEnsemble leads it to and the
\* command of the name it creates: neither may have been freed.
CreateDefined(w, f, ensName) ==
    IF f.status = "UNDEFINED" THEN FALSE
    ELSE IF f.status = "OK" /\ f.ensData > 0
    THEN Usable(w, f.ensData) /\ NameDefined(w, f.ensData, ensName)
    ELSE TRUE

\* Itcl_CreateEnsemble(interp, ensName), ensName already split into path;
\* host is what the host does when the command is installed.
Itcl_CreateEnsemble(path, host) ==
    /\ Ready /\ BodyRuns
    /\ numEnsembles < MaxEns
    /\ UNCHANGED <<parserEnsData, frames, del>>
    /\ IF Len(path) < 1
       THEN /\ UNCHANGED <<ens, numEnsembles, ensembles, cmds>>
            /\ last' = Obs("Itcl_CreateEnsemble", 0, <<>>, "ERROR",
                           "invalid", -1, path)
       ELSE IF Len(path) = 1
       THEN \E r \in {CreateEnsemble(World, 0, path[1], host)} :
                /\ SetWorld(r.w)
                /\ last' = Obs("Itcl_CreateEnsemble", 0, path[1], r.status,
                               "top", -1, path)
       ELSE \E f \in {FindEnsemble(World, SubSeq(path, 1, Len(path) - 1))} :
                /\ CreateDefined(World, f, path[Len(path)])
                /\ \E outcome \in CreateOutcomes(f) :
                     \E r \in {CreateEnsembleIn(World, f, path[Len(path)],
                                                host, outcome)} :
                       /\ SetWorld(r.w)
                       /\ last' = Obs("Itcl_CreateEnsemble",
                                      IF f.status = "OK" THEN f.ensData
                                      ELSE 0,
                                      path[Len(path)], r.status,
                                      IF f.status = "OK" THEN "sub"
                                      ELSE "nopath",
                                      -1, path)

\* Itcl_AddEnsemblePart(interp, ensName, partName, usageInfo, objProc,
\* clientData, deleteProc): a native part with the caller's client data.
Itcl_AddEnsemblePartData(path, partName, usageInfo, clientData, hostOk) ==
    /\ Ready /\ BodyRuns
    /\ UNCHANGED <<parserEnsData, frames, del>>
    /\ \E f \in {FindEnsemble(World, path)} :
           IF f.status # "OK"
           THEN /\ UNCHANGED <<ens, numEnsembles, ensembles, cmds>>
                /\ last' = Obs("Itcl_AddEnsemblePart", 0, partName, "ERROR",
                               "nopath", -1, <<>>)
           ELSE /\ Usable(World, f.ensData)
                /\ \E r \in {AddEnsemblePart(World, f.ensData, partName,
                                             usageInfo, clientData,
                                             ITCL_ENSEMBLE_CUSTOM, hostOk)} :
                       /\ SetWorld(r.w)
                       /\ last' = Obs("Itcl_AddEnsemblePart", f.ensData,
                                      partName, r.status,
                                      IF r.w = World THEN "exists"
                                      ELSE "added",
                                      -1, <<>>)

\* Itcl_AddEnsemblePart called with a NULL client data, as a handler that
\* needs no data of its own is registered.
Itcl_AddEnsemblePart(path, partName, usageInfo, hostOk) ==
    Itcl_AddEnsemblePartData(path, partName, usageInfo, 0, hostOk)

\* DeleteEnsemblePart(ensPart) called on the part at pos of ensemble e.
DeleteEnsemblePartOp(e, pos) ==
    /\ Ready /\ BodyRuns
    /\ Usable(World, e)
    /\ pos \in 0..(Len(ens[e].parts) - 1)
    /\ DeleteDefined(World, e, pos)
    /\ SetWorld(DeleteEnsemblePart(World, e, pos))
    /\ last' = Obs("DeleteEnsemblePart", e, ens[e].parts[pos + 1].name, "OK",
                   "", pos, <<>>)
    /\ UNCHANGED <<parserEnsData, frames, del>>

\* A faulty variant of LookupPart: the ensemble that was searched is left
\* behind as the parser's current ensemble.
LookupPartKept(e, partName) ==
    /\ Ready /\ BodyRuns
    /\ Usable(World, e)
    /\ \E r \in {FindEnsemblePart(ens[e].parts, partName)} :
           last' = Obs("FindEnsemblePart", e, partName, r.status, "",
                       r.pos, r.cands)
    /\ parserEnsData' = e
    /\ UNCHANGED <<ens, numEnsembles, ensembles, cmds, frames, del>>

\* FindEnsemblePart(interp, ensData, partName, &ensPart) on ensemble e.
LookupPart(e, partName) ==
    /\ Ready /\ BodyRuns
    /\ Usable(World, e)
    /\ \E r \in {FindEnsemblePart(ens[e].parts, partName)} :
           last' = Obs("FindEnsemblePart", e, partName, r.status, "",
                       r.pos, r.cands)
    /\ UNCHANGED <<ens, numEnsembles, ensembles, cmds, parserEnsData,
                   frames, del>>

\* FindEnsemble(interp, nameArgv, nameArgc, &ensData) as its callers
\* call it, with a path of one or two names.
FindEnsembleOp(path) ==
    /\ Ready /\ BodyRuns
    /\ \E f \in {FindEnsemble(World, path)} :
           /\ f.status # "UNDEFINED"
           /\ last' = Obs("FindEnsemble", f.ensData,
                          IF path = <<>> THEN <<>> ELSE path[Len(path)],
                          f.status, f.msg, -1, path)
    /\ UNCHANGED <<ens, numEnsembles, ensembles, cmds, parserEnsData,
                   frames, del>>

\* Itcl_SaveInterpState(interp, TCL_OK): a snapshot of the result and
\* error state of the interpreter.
Itcl_SaveInterpState(interp) == interp

\* Itcl_RestoreInterpState(interp, state): the interpreter is put back in
\* the state of the snapshot.
Itcl_RestoreInterpState(interp, state) == state

\* Itcl_DiscardInterpState(state): the interpreter stays as it is.
Itcl_DiscardInterpState(interp, state) == interp

\* What a probing lookup answers: its return value, what it found or
\* rendered, and the state it leaves the interpreter in.
Probed(ret, kind, pos, text, interp) ==
    [ret |-> ret, kind |-> kind, pos |-> pos, text |-> text,
     interp |-> interp]

\* A faulty variant of EnsGetFail: the snapshot is discarded.
EnsGetFailDiscards(interp, state, kind) ==
    Probed(0, kind, -1, <<>>, Itcl_DiscardInterpState(interp, state))

\* Itcl_GetEnsemblePart at its label ensGetFail.
EnsGetFail(interp, state, kind) ==
    Probed(0, kind, -1, <<>>, Itcl_RestoreInterpState(interp, state))

\* The end of Itcl_GetEnsemblePart, r being what FindEnsemblePart answered
\* in ensemble e: the part must be found and its cmdPtr be a command.
GetEnsemblePartIn(w, interp, state, e, r) ==
    IF r.status # "OK"
    THEN EnsGetFail(AppendResult(interp, "ambiguous"), state, "ambiguous")
    ELSE IF r.pos < 0 THEN EnsGetFail(interp, state, "nopart")
    ELSE IF GetCommandInfoFromToken(w.cmds,
                                    w.ens[e].parts[r.pos + 1].cmdPtr) # 1
    THEN EnsGetFail(interp, state, "nocmd")
    ELSE Probed(1, "found", r.pos, <<>>,
                Itcl_DiscardInterpState(interp, state))

\* Itcl_GetEnsemblePart when FindEnsemble answered a pointer that is no
\* Ensemble: what it reads there is undefined, and outcome is what comes
\* of it.
GetEnsemblePartUndefined(interp, state, outcome) ==
    IF outcome = "crash" THEN Probed(-1, "crash", -1, <<>>, interp)
    ELSE IF outcome = "found"
    THEN Probed(1, "found", -1, <<>>,
                Itcl_DiscardInterpState(interp, state))
    ELSE IF outcome = "ambiguous"
    THEN EnsGetFail(AppendResult(interp, "ambiguous"), state, "ambiguous")
    ELSE EnsGetFail(interp, state, outcome)

\* Itcl_GetEnsemblePart once the snapshot is taken and the path is split,
\* f being what FindEnsemble answered.
GetEnsemblePartAt(w, interp, state, partName, f, outcome) ==
    IF f.status # "OK"
    THEN EnsGetFail(AppendResult(interp, f.msg), state, f.msg)
    ELSE IF f.ensData = 0 THEN EnsGetFail(interp, state, "null")
    ELSE IF f.ensData < 0
    THEN GetEnsemblePartUndefined(interp, state, outcome)
    ELSE GetEnsemblePartIn(w, interp, state, f.ensData,
             FindEnsemblePart(w.ens[f.ensData].parts, partName))

\* Itcl_GetEnsemblePart(interp, ensName, partName, infoPtr); parsable is
\* whether Tcl_SplitList accepts ensName, path what it splits it into.
GetEnsemblePart(w, interp, parsable, path, partName, outcome) ==
    IF ~parsable
    THEN EnsGetFail(AppendResult(interp, "list"),
                    Itcl_SaveInterpState(interp), "list")
    ELSE GetEnsemblePartAt(w, interp, Itcl_SaveInterpState(interp),
                           partName, FindEnsemble(w, path), outcome)

\* Itcl_GetEnsembleUsage at its label ensUsageFail.
EnsUsageFail(interp, state, kind) ==
    Probed(0, kind, -1, <<>>, Itcl_RestoreInterpState(interp, state))

\* Itcl_GetEnsembleUsage once the snapshot is taken and the path is split,
\* f being what FindEnsemble answered; objPtr is empty when it is called.
GetEnsembleUsageAt(w, interp, state, f, outcome) ==
    IF f.status # "OK"
    THEN EnsUsageFail(AppendResult(interp, f.msg), state, f.msg)
    ELSE IF f.ensData = 0 THEN EnsUsageFail(interp, state, "null")
    ELSE IF f.ensData < 0
    THEN (IF outcome = "crash" THEN Probed(-1, "crash", -1, <<>>, interp)
          ELSE Probed(1, "undefined", -1, <<>>,
                      Itcl_DiscardInterpState(interp, state)))
    ELSE Probed(1, "usage", -1, GetEnsembleUsage(w, f.ensData, <<>>),
                Itcl_DiscardInterpState(interp, state))

\* Itcl_GetEnsembleUsage(interp, ensName, objPtr).
GetEnsembleUsageOf(w, interp, parsable, path, outcome) ==
    IF ~parsable
    THEN EnsUsageFail(AppendResult(interp, "list"),
                      Itcl_SaveInterpState(interp), "list")
    ELSE GetEnsembleUsageAt(w, interp, Itcl_SaveInterpState(interp),
                            FindEnsemble(w, path), outcome)

\* What a probing lookup reports: as Obs, but with the state the lookup
\* itself leaves the interpreter in; a crash is reported as PANIC.
ObsProbe(op, path, partName, p) ==
    [op |-> op, e |-> 0, name |-> partName,
     status |-> IF p.ret = 1 THEN "OK"
                ELSE IF p.ret = 0 THEN "ERROR" ELSE "PANIC",
     kind |-> p.kind, pos |-> p.pos,
     cands |-> IF p.ret = 1 /\ p.kind = "usage" THEN p.text ELSE path,
     interp |-> p.interp]

\* What is undefined comes out in one of these ways.
Outcomes == {"nopart", "ambiguous", "nocmd", "found", "crash"}

\* The ways what is undefined can come out for a lookup whose FindEnsemble
\* answered f; where nothing is undefined the outcome is that of the code.
OutcomesOf(f, undefined) ==
    IF f.status = "OK" /\ f.ensData < 0 THEN undefined ELSE {"nopart"}

\* The probing lookups read the record FindEnsemble leads them to: it must
\* not have been freed.
ProbeDefined(w, f) ==
    IF f.status = "UNDEFINED" THEN FALSE
    ELSE IF f.status = "OK" /\ f.ensData > 0 THEN Usable(w, f.ensData)
    ELSE TRUE

\* Itcl_GetEnsemblePart(interp, ensName, partName, infoPtr), called with
\* the interpreter as the last operation left it.  A string that is no
\* list has no path.
Itcl_GetEnsemblePart(parsable, path, partName) ==
    /\ Ready /\ BodyRuns
    /\ IF parsable THEN TRUE ELSE path = <<>>
    /\ \E f \in {FindEnsemble(World, path)} :
           /\ ProbeDefined(World, f)
           /\ \E outcome \in OutcomesOf(f, Outcomes) :
                  last' = ObsProbe("Itcl_GetEnsemblePart", path, partName,
                              GetEnsemblePart(World, last.interp, parsable,
                                              path, partName, outcome))
    /\ UNCHANGED <<ens, numEnsembles, ensembles, cmds, parserEnsData,
                   frames, del>>

\* Itcl_GetEnsembleUsage(interp, ensName, objPtr).
Itcl_GetEnsembleUsage(parsable, path) ==
    /\ Ready /\ BodyRuns
    /\ IF parsable THEN TRUE ELSE path = <<>>
    /\ \E f \in {FindEnsemble(World, path)} :
           /\ ProbeDefined(World, f)
           /\ IF f.status = "OK" /\ f.ensData > 0
              THEN UsageDefined(World, f.ensData) ELSE TRUE
           /\ \E outcome \in OutcomesOf(f, {"found", "crash"}) :
                  last' = ObsProbe("Itcl_GetEnsembleUsage", path, <<>>,
                              GetEnsembleUsageOf(World, last.interp,
                                                 parsable, path, outcome))
    /\ UNCHANGED <<ens, numEnsembles, ensembles, cmds, parserEnsData,
                   frames, del>>

\* DeleteEnsemble(clientData) is entered for ensemble e.
DeleteEnsembleBegin(e) ==
    /\ Ready /\ BodyRuns
    /\ Usable(World, e)
    /\ del' = [e |-> e, calls |-> 0, start |-> Len(ens[e].parts)]
    /\ UNCHANGED <<ens, numEnsembles, ensembles, cmds, parserEnsData,
                   frames, last>>

\* One turn of DeleteEnsemble's loop: numParts > 0, so
\* DeleteEnsemblePart(ensData->parts[0]) is called.
DeleteEnsembleStep ==
    /\ del.e # 0
    /\ Len(ens[del.e].parts) > 0
    /\ del.calls < MaxIter
    /\ DeleteDefined(World, del.e, 0)
    /\ SetWorld(DeleteEnsemblePart(World, del.e, 0))
    /\ del' = [del EXCEPT !.calls = @ + 1]
    /\ UNCHANGED <<parserEnsData, frames, last>>

\* DeleteEnsemble leaves its loop: numParts = 0, the array and the record
\* are freed.  Neither the handle map nor the host's command is touched.
DeleteEnsembleEnd ==
    /\ del.e # 0
    /\ Len(ens[del.e].parts) = 0
    /\ ens' = [ens EXCEPT ![del.e].freed = TRUE]
    /\ del' = NoDel
    /\ last' = Obs("DeleteEnsemble", del.e, <<>>, "OK", "", del.calls, <<>>)
    /\ UNCHANGED <<numEnsembles, ensembles, cmds, parserEnsData, frames>>

\* The host deletes the command h (rename to "", namespace teardown).
\* CreateEnsemble registered no delete callback with Tcl_CreateEnsemble,
\* so nothing of the registry runs.
HostDeleteCommand(h) ==
    /\ Ready /\ BodyRuns
    /\ h \in DOMAIN cmds
    /\ ~cmds[h].freed
    /\ cmds' = [x \in DOMAIN cmds \ {h} |-> cmds[x]]
    /\ last' = Obs("HostDeleteCommand", h, cmds[h].name, "OK", "", -1, <<>>)
    /\ UNCHANGED <<ens, numEnsembles, ensembles, parserEnsData, frames, del>>

(* ------------------------------------------------------------------ *)
(* The definition verbs                                                *)
(* ------------------------------------------------------------------ *)

\* A faulty variant of RestoreEnsData: the context is left as it is.
RestoreNothing(savedEnsData, current) == current

\* The value ensInfo->ensData gets when Itcl_EnsembleCmd returns.
RestoreEnsData(savedEnsData, current) == savedEnsData

\* What the first half of Itcl_EnsembleCmd answers: a status, the registry
\* it leaves, the Ensemble to plug into the parser, and how it was got.
Resolved(status, w, target, kind) ==
    [status |-> status, w |-> w, target |-> target, kind |-> kind]

\* The handle map is asked for the ensemble behind command cmd.
ResolveHandle(w, cmd, kind) ==
    IF cmd = 0 THEN Resolved("ERROR", w, 0, "notensemble")
    ELSE IF HashFind(w.ensembles, cmd) = 0
    THEN Resolved("ERROR", w, 0, "notensemble")
    ELSE Resolved("OK", w, HashFind(w.ensembles, cmd), kind)

\* The second FindEnsemblePart, after CreateEnsemble made the gateway part:
\* a failure is a panic.
ResolveCreatedPart(w, ctx, r2) ==
    IF r2.status # "OK" THEN Resolved("PANIC", w, 0, "panic")
    ELSE IF r2.pos < 0 THEN Resolved("PANIC", w, 0, "panic")
    ELSE ResolveHandle(w, w.ens[ctx].parts[r2.pos + 1].cmdPtr, "created")

\* c is what CreateEnsemble(interp, ensData, ensName) answered.
ResolveCreated(c, ctx, ensName) ==
    IF c.status # "OK" THEN Resolved("ERROR", c.w, 0, "create")
    ELSE ResolveCreatedPart(c.w, ctx,
                            FindEnsemblePart(c.w.ens[ctx].parts, ensName))

\* Inside an ensemble ctx: r1 is what the first FindEnsemblePart answered;
\* an ambiguous or missing name makes CreateEnsemble run.
ResolveInEnsemble(w, ctx, ensName, r1) ==
    IF r1.status = "OK" /\ r1.pos >= 0
    THEN ResolveHandle(w, w.ens[ctx].parts[r1.pos + 1].cmdPtr, "found")
    ELSE ResolveCreated(CreateEnsemble(w, ctx, ensName, HostOk), ctx,
                        ensName)

\* c is what CreateEnsemble(interp, NULL, ensName) answered.
ResolveTopCreated(c, ensName) ==
    IF c.status # "OK" THEN Resolved("ERROR", c.w, 0, "create")
    ELSE ResolveHandle(c.w, HostFind(c.w.cmds, 0, ensName), "created")

\* A faulty variant of ResolveTop: the access command is created whether
\* or not Tcl_FindCommand found one.
ResolveTopCreatesAnyway(w, ensName, cmd0) ==
    ResolveTopCreated(CreateEnsemble(w, 0, ensName, HostOk), ensName)

\* At top level: cmd0 is what Tcl_FindCommand answered.
ResolveTop(w, ensName, cmd0) ==
    IF cmd0 # 0 THEN ResolveHandle(w, cmd0, "found")
    ELSE ResolveTopCreated(CreateEnsemble(w, 0, ensName, HostOk), ensName)

\* The first half of Itcl_EnsembleCmd: find or create the ensemble named
\* ensName under the current ensemble ctx (0: a top-level command).
ResolveEnsemble(w, ctx, ensName) ==
    IF ctx # 0
    THEN ResolveInEnsemble(w, ctx, ensName,
                           FindEnsemblePart(w.ens[ctx].parts, ensName))
    ELSE ResolveTop(w, ensName, HostFind(w.cmds, 0, ensName))

\* The frame of an `ensemble` invocation whose body is being evaluated:
\* entry is the context when the invocation started, savedEnsData the
\* local variable of that name.
Frame(entry, target, ensName) ==
    [entry |-> entry, savedEnsData |-> entry, target |-> target,
     name |-> ensName, err |-> FALSE]

\* Itcl_EnsembleCmd up to the evaluation of its body.  With objc < 2 it
\* fails at once; with objc = 2 there is no body and it returns here; with
\* objc = 3 the body starts to be evaluated in a new frame.
Itcl_EnsembleCmd(objc, ensName) ==
    /\ Ready /\ BodyRuns
    /\ del' = del
    /\ IF objc < 2
       THEN /\ UNCHANGED <<ens, numEnsembles, ensembles, cmds,
                           parserEnsData>>
            /\ frames' = MarkErr(frames)
            /\ last' = Obs("Itcl_EnsembleCmd", 0, <<>>, "ERROR", "args",
                           -1, <<>>)
       ELSE /\ IF parserEnsData # 0
               THEN /\ Usable(World, parserEnsData)
                    /\ NameDefined(World, parserEnsData, ensName)
               ELSE TRUE
            /\ \E r \in {ResolveEnsemble(World, parserEnsData, ensName)} :
                   /\ r.w.numEnsembles <= MaxEns
                   /\ SetWorld(r.w)
                   /\ IF r.status # "OK"
                      THEN /\ parserEnsData' = parserEnsData
                           /\ frames' = MarkErr(frames)
                           /\ last' = Obs("Itcl_EnsembleCmd", parserEnsData,
                                          ensName, r.status, r.kind, -1,
                                          <<>>)
                      ELSE IF objc = 2
                      THEN /\ parserEnsData' =
                                   RestoreEnsData(parserEnsData, r.target)
                           /\ frames' = frames
                           /\ last' = Obs("Itcl_EnsembleCmd", r.target,
                                          ensName, "OK", r.kind, -1, <<>>)
                      ELSE /\ Len(frames) < MaxDepth
                           /\ parserEnsData' = r.target
                           /\ frames' = Append(frames,
                                  Frame(parserEnsData, r.target, ensName))
                           /\ last' = Obs("EvalBody", r.target, ensName,
                                          "OK", r.kind, -1, <<>>)

\* The body of the innermost `ensemble` invocation has been evaluated (or
\* has stopped on an error): Itcl_EnsembleCmd restores the context and
\* returns the status of the evaluation to whoever invoked the verb.
Itcl_EnsembleCmdReturn ==
    /\ Ready
    /\ frames # <<>>
    /\ \E top \in {frames[Len(frames)]} :
           /\ parserEnsData' =
                  RestoreEnsData(top.savedEnsData, parserEnsData)
           /\ frames' = IF top.err
                        THEN MarkErr(SubSeq(frames, 1, Len(frames) - 1))
                        ELSE SubSeq(frames, 1, Len(frames) - 1)
           /\ last' = Obs("Itcl_EnsembleCmd", top.target, top.name,
                          IF top.err THEN "ERROR" ELSE "OK", "body", -1,
                          <<>>)
    /\ UNCHANGED <<ens, numEnsembles, ensembles, cmds, del>>

\* GetEnsembleParser has run: `part`, `option` and `ensemble` are commands
\* of the interpreter.  Where the verbs are invoked every ensemble is made
\* by Itcl_EnsembleCmd, which gets the parser before it makes one.
ParserInstalled(w) == w.numEnsembles >= 1

\* objv[1..objc-1] of an invocation of the `part` verb: the name, and empty
\* words for what follows it.
PartArgs(objc, partName) ==
    [i \in 1..(objc - 1) |-> IF i = 1 THEN partName ELSE <<>>]

\* Itcl_EnsPartCmd with ensInfo->ensData = NULL and objc = 4: the reads of
\* ensData->cmd are reads through a null pointer, which is undefined.
\* outcome is what comes of it: the program crashes, or the value read is
\* no command and TCL_ERROR is returned.
EnsPartUndefined(partName, outcome) ==
    Obs("Itcl_EnsPartCmd", 0, partName,
        IF outcome = "crash" THEN "PANIC" ELSE "ERROR", "nullcontext", -1,
        PartArgs(4, partName))

\* The ways what is undefined can come out for the `part` verb in the
\* context ctx; where nothing is undefined the outcome is that of the code.
EnsPartOutcomes(objc, ctx) ==
    IF objc = 4 /\ ctx = 0 THEN {"crash", "error"} ELSE {"defined"}

\* Itcl_EnsPartCmd reads the current ensemble and its command: neither may
\* have been freed.
EnsPartDefined(w, objc, ctx) ==
    IF objc # 4 THEN TRUE
    ELSE IF ctx = 0 THEN TRUE
    ELSE IF Usable(w, ctx) THEN HandleLive(w, w.ens[ctx].cmd)
    ELSE FALSE

\* Tcl_CreateProc(interp, nsPtr, partName, args, body, &procPtr) when it
\* returns TCL_OK: procPtr refers to the procedure it made.
Tcl_CreateProc == [status |-> "OK", procPtr |-> 1]

\* Itcl_EnsPartCmd: the `part` / `option` verb, invoked with objc words in
\* the current ensemble.  host says what the host did: "args" (the
\* argument list or the proc could not be created), "nocmd"
\* (Tcl_CreateObjCommand gave NULL), "ok".  The verb is given an empty
\* parameter list, whose usage string is empty.
Itcl_EnsPartCmd(objc, partName, host) ==
    /\ Ready /\ BodyRuns
    /\ ParserInstalled(World)
    /\ EnsPartDefined(World, objc, parserEnsData)
    /\ IF objc # 4
       THEN /\ UNCHANGED <<ens, numEnsembles, ensembles, cmds>>
            /\ frames' = MarkErr(frames)
            /\ last' = Obs("Itcl_EnsPartCmd", parserEnsData, partName,
                           "ERROR", "wrongargs", -1,
                           PartArgs(objc, partName))
       ELSE IF parserEnsData = 0
       THEN /\ UNCHANGED <<ens, numEnsembles, ensembles, cmds>>
            /\ frames' = MarkErr(frames)
            /\ \E outcome \in EnsPartOutcomes(objc, parserEnsData) :
                   last' = EnsPartUndefined(partName, outcome)
       ELSE IF host = "args"
       THEN /\ UNCHANGED <<ens, numEnsembles, ensembles, cmds>>
            /\ frames' = MarkErr(frames)
            /\ last' = Obs("Itcl_EnsPartCmd", parserEnsData, partName,
                           "ERROR", "args", -1, PartArgs(objc, partName))
       ELSE \E r \in {AddEnsemblePart(World, parserEnsData, partName,
                                      NoUsage, Tcl_CreateProc.procPtr,
                                      ITCL_ENSEMBLE_ENSEMBLE,
                                      host = "ok")} :
                /\ SetWorld(r.w)
                /\ frames' = IF r.status = "OK" THEN frames
                             ELSE MarkErr(frames)
                /\ last' = Obs("Itcl_EnsPartCmd", parserEnsData, partName,
                               r.status,
                               IF r.w = World THEN "exists" ELSE "added",
                               -1, PartArgs(objc, partName))
    /\ UNCHANGED <<parserEnsData, del>>

\* Some other command of the body being evaluated is run.  The body is
\* evaluated by Tcl_EvalObj in ensInfo->parser, which is the interpreter
\* itself with all its commands: a word that is a command of the
\* interpreter is executed, and here returns TCL_OK.
BodyVerbRuns ==
    /\ Ready /\ BodyRuns
    /\ frames # <<>>
    /\ last' = Obs("verb", parserEnsData, <<>>, "OK", "executed", -1, <<>>)
    /\ UNCHANGED <<ens, numEnsembles, ensembles, cmds, parserEnsData,
                   frames, del>>

\* Some other command of the body being evaluated fails.
BodyVerbFails ==
    /\ Ready /\ BodyRuns
    /\ frames # <<>>
    /\ frames' = MarkErr(frames)
    /\ last' = Obs("verb", parserEnsData, <<>>, "ERROR", "unknown", -1, <<>>)
    /\ UNCHANGED <<ens, numEnsembles, ensembles, cmds, parserEnsData, del>>

(* ------------------------------------------------------------------ *)
(* The unknown-handler                                                 *)
(* ------------------------------------------------------------------ *)

\* Itcl_EnsembleErrorCmd: the "bad option" message, which ends with the
\* usage summary, becomes the result; always TCL_ERROR.
Itcl_EnsembleErrorCmd(w, e, cmdName) ==
    Obs("EnsembleUnknownCmd", e, cmdName, "ERROR", "badoption", -1,
        GetEnsembleUsage(w, e, BadOption \o cmdName \o ShouldBeOneOf))

\* A faulty variant of EnsembleUnknownPart: the "@error" part is never
\* consulted.
EnsembleUnknownPartIgnored(w, e, objv1, partNameArg, r) ==
    Itcl_EnsembleErrorCmd(w, e, partNameArg)

\* The end of EnsembleUnknownCmd for ensemble e: r is what
\* FindEnsemblePart(interp, ensData, "@error", &ensPart) answered.
EnsembleUnknownPart(w, e, objv1, partNameArg, r) ==
    IF r.status # "OK"
    THEN Obs("EnsembleUnknownCmd", e, partNameArg, "ERROR", "ambiguous", -1,
             r.cands)
    ELSE IF r.pos >= 0
    THEN Obs("EnsembleUnknownCmd", e, partNameArg, "OK", "redirect", r.pos,
             <<objv1, NameAtError, partNameArg>>)
    ELSE Itcl_EnsembleErrorCmd(w, e, partNameArg)

\* A faulty variant of EnsembleUnknownIn: the "@error" part is looked up
\* before the arguments are counted.
EnsembleUnknownInLate(w, e, objc, objv1, partNameArg) ==
    IF FindEnsemblePart(w.ens[e].parts, NameAtError).pos >= 0
    THEN EnsembleUnknownPart(w, e, objv1,
                             IF objc < 3 THEN <<>> ELSE partNameArg,
                             FindEnsemblePart(w.ens[e].parts, NameAtError))
    ELSE Obs("EnsembleUnknownCmd", e, <<>>, "ERROR", "usage", -1,
             GetEnsembleUsage(w, e, WrongArgs))

\* EnsembleUnknownCmd once the handle map has answered e for the command:
\* with fewer than three arguments the "wrong # args" message, which ends
\* with the usage summary, becomes the result.
EnsembleUnknownIn(w, e, objc, objv1, partNameArg) ==
    IF objc < 3
    THEN Obs("EnsembleUnknownCmd", e, <<>>, "ERROR", "usage", -1,
             GetEnsembleUsage(w, e, WrongArgs))
    ELSE EnsembleUnknownPart(w, e, objv1, partNameArg,
                             FindEnsemblePart(w.ens[e].parts, NameAtError))

\* EnsembleUnknownCmd with objv[1] resolving to command cmd (0: to none),
\* objc arguments, and objv[2] = partNameArg when objc >= 3.
EnsembleUnknown(w, cmd, objc, objv1, partNameArg) ==
    IF cmd = 0
    THEN Obs("EnsembleUnknownCmd", 0, partNameArg, "ERROR", "nocmd", -1, <<>>)
    ELSE IF HashFind(w.ensembles, cmd) = 0
    THEN Obs("EnsembleUnknownCmd", 0, partNameArg, "ERROR", "none", -1, <<>>)
    ELSE EnsembleUnknownIn(w, HashFind(w.ensembles, cmd), objc, objv1,
                           partNameArg)

\* The host calls the unknown-handler with objv[1] = objv1.
EnsembleUnknownCmd(objv1, objc) ==
    /\ Ready /\ BodyRuns
    /\ NameDefined(World, 0, objv1)
    /\ IF HashFind(ensembles, HostFind(cmds, 0, objv1)) # 0
       THEN /\ Usable(World, HashFind(ensembles, HostFind(cmds, 0, objv1)))
            /\ UsageDefined(World,
                            HashFind(ensembles, HostFind(cmds, 0, objv1)))
       ELSE TRUE
    /\ last' = EnsembleUnknown(World, HostFind(cmds, 0, objv1), objc, objv1,
                               NameBogus)
    /\ UNCHANGED <<ens, numEnsembles, ensembles, cmds, parserEnsData,
                   frames, del>>

(* ------------------------------------------------------------------ *)
(* Specification                                                       *)
(* ------------------------------------------------------------------ *)

Init ==
    /\ ens = <<>>
    /\ numEnsembles = 0
    /\ ensembles = <<>>
    /\ cmds = <<>>
    /\ parserEnsData = 0
    /\ frames = <<>>
    /\ del = NoDel
    /\ last = Obs("Itcl_EnsembleInit", 0, <<>>, "OK", "", -1, <<>>)

\* The store of one top-level ensemble: the top-level ensemble is found or
\* created by `ensemble a`, sub-ensembles (whose gateway parts carry a
\* command) and native parts are inserted, parts are deleted, and
\* abbreviations are looked up.
SubPaths(names) == {<<t, n>> : t \in TopNames, n \in names}

Next ==
    \/ \E t \in TopNames : Itcl_EnsembleCmd(2, t)
    \/ \E path \in SubPaths(PartNames) :
           Itcl_CreateEnsemble(path, HostOk)
    \/ \E path \in PartPaths, n \in PartNames, ok \in BOOLEAN :
           Itcl_AddEnsemblePart(path, n, NoUsage, ok)
    \/ \E e \in 1..MaxEns, pos \in 0..(Cardinality(PartNames) - 1) :
           DeleteEnsemblePartOp(e, pos)
    \/ \E e \in 1..MaxEns, s \in Queries : LookupPart(e, s)

Spec == Init /\ [][Next]_vars

\* Ensembles are created, given native parts and sub-ensembles, and
\* deleted: by DeleteEnsemble, followed call by call, and by the host
\* deleting their command.
NextDelete ==
    \/ \E path \in CreatePaths(FewNames) :
           Itcl_CreateEnsemble(path, HostOk)
    \/ \E path \in PartPaths, n \in FewNames :
           Itcl_AddEnsemblePart(path, n, NoUsage, TRUE)
    \/ \E e \in 1..MaxEns : DeleteEnsembleBegin(e)
    \/ DeleteEnsembleStep
    \/ DeleteEnsembleEnd
    \/ \E h \in 1..MaxEns : HostDeleteCommand(h)

SpecDelete == Init /\ [][NextDelete]_vars

\* Scripts of `ensemble` and `part` verbs are evaluated, nested up to
\* MaxDepth, with verbs that fail.
NextParser ==
    \/ \E objc \in 1..3, n \in TopNames \cup FewNames :
           Itcl_EnsembleCmd(objc, n)
    \/ Itcl_EnsembleCmdReturn
    \/ \E objc \in 3..5, n \in FewNames, host \in {"args", "nocmd", "ok"} :
           Itcl_EnsPartCmd(objc, n, host)
    \/ BodyVerbFails
    \/ BodyVerbRuns

SpecParser == Init /\ [][NextParser]_vars

\* An ensemble gets and loses parts whose names start with "@error", and
\* the host calls the unknown-handler.
NextUnknown ==
    \/ \E t \in TopNames : Itcl_EnsembleCmd(2, t)
    \/ \E path \in SubPaths(ErrorNames) :
           Itcl_CreateEnsemble(path, HostOk)
    \/ \E path \in PartPaths, n \in ErrorNames :
           Itcl_AddEnsemblePart(path, n, NoUsage, TRUE)
    \/ \E e \in 1..MaxEns, pos \in 0..(Cardinality(ErrorNames) - 1) :
           DeleteEnsemblePartOp(e, pos)
    \/ \E objv1 \in TopNames \cup {NameBogus}, objc \in 2..3 :
           EnsembleUnknownCmd(objv1, objc)

SpecUnknown == Init /\ [][NextUnknown]_vars

\* An ensemble gets and loses parts named "area", "@error" and
\* "@itcl-builtin_info", native ones with and without a usage string and
\* sub-ensemble gateways, and the host calls the unknown-handler.
NextUsage ==
    \/ \E t \in TopNames : Itcl_EnsembleCmd(2, t)
    \/ \E path \in SubPaths(UsageNames) :
           Itcl_CreateEnsemble(path, HostOk)
    \/ \E path \in PartPaths, n \in UsageNames, u \in UsageInfos :
           Itcl_AddEnsemblePart(path, n, u, TRUE)
    \/ \E e \in 1..MaxEns, pos \in 0..(Cardinality(UsageNames) - 1) :
           DeleteEnsemblePartOp(e, pos)
    \/ \E objv1 \in TopNames \cup {NameBogus}, objc \in 2..3 :
           EnsembleUnknownCmd(objv1, objc)

SpecUsage == Init /\ [][NextUsage]_vars

\* Paths offered to the lookups: empty, a top-level name, a name that is
\* no command, and a top-level name followed by a part name.
LookupPaths(names) ==
    {<<>>, <<NameBogus>>} \cup {<<t>> : t \in TopNames}
        \cup {<<t, n>> : t \in TopNames, n \in names}

\* Part names offered to Itcl_GetEnsemblePart: names and abbreviations.
LookupNames == {<<103>>, NameGet, NameSet, NameSum}

\* Ensembles and sub-ensembles are created, parts are added and deleted,
\* and paths and parts are looked up by FindEnsemble and by the probing
\* lookups, which find the interpreter as the last operation left it.
NextLookup ==
    \/ \E path \in CreatePaths(FewNames) :
           Itcl_CreateEnsemble(path, HostOk)
    \/ \E path \in PartPaths, n \in FewNames, ok \in BOOLEAN :
           Itcl_AddEnsemblePart(path, n, NoUsage, ok)
    \/ \E e \in 1..MaxEns, pos \in 0..(Cardinality(FewNames) - 1) :
           DeleteEnsemblePartOp(e, pos)
    \/ \E path \in LookupPaths(FewNames) : FindEnsembleOp(path)
    \/ \E parsable \in BOOLEAN, path \in LookupPaths(FewNames),
          n \in LookupNames :
           Itcl_GetEnsemblePart(parsable, path, n)
    \/ \E parsable \in BOOLEAN, path \in LookupPaths(FewNames) :
           Itcl_GetEnsembleUsage(parsable, path)

SpecLookup == Init /\ [][NextLookup]_vars

\* Ensembles and sub-ensembles are created and parts are added with a host
\* that may fail to install their commands; parts are deleted, ensembles
\* are deleted by DeleteEnsemble, and the host deletes commands.
NextInstall ==
    \/ \E path \in CreatePaths(FewNames), host \in Installs :
           Itcl_CreateEnsemble(path, host)
    \/ \E path \in PartPaths, n \in FewNames, ok \in BOOLEAN :
           Itcl_AddEnsemblePart(path, n, NoUsage, ok)
    \/ \E e \in 1..MaxEns, pos \in 0..(Cardinality(FewNames) - 1) :
           DeleteEnsemblePartOp(e, pos)
    \/ \E e \in 1..MaxEns : DeleteEnsembleBegin(e)
    \/ DeleteEnsembleStep
    \/ DeleteEnsembleEnd
    \/ \E h \in 1..MaxEns : HostDeleteCommand(h)

SpecInstall == Init /\ [][NextInstall]_vars

\* Part names of the ensembles that paths are followed through.
PathNames == {NameGet, NameGetall, NameSet}

\* Names that come before the last in a path of three: part names, the
\* abbreviation "g", and a name no part has.
PathSteps == PathNames \cup {<<103>>, NameBogus}

\* Paths offered to Itcl_CreateEnsemble: empty, one name, two names of
\* which the first may be no command, three names.
DeepPaths ==
    {<<>>} \cup {<<t>> : t \in TopNames}
           \cup {<<t, n>> : t \in TopNames \cup {NameBogus}, n \in PathNames}
           \cup {<<t, m, NameSet>> : t \in TopNames, m \in PathSteps}

\* Ensembles are created along paths of up to three names, through
\* ensembles that have native parts and sub-ensembles.
NextPath ==
    \/ \E path \in DeepPaths : Itcl_CreateEnsemble(path, HostOk)
    \/ \E path \in PartPaths, n \in PathNames :
           Itcl_AddEnsemblePart(path, n, NoUsage, TRUE)
    \/ \E e \in 1..MaxEns, pos \in 0..(Cardinality(PathNames) - 1) :
           DeleteEnsemblePartOp(e, pos)

SpecPath == Init /\ [][NextPath]_vars

\* Part names offered where any string is a name: "", "get", "getall".
AnyNames == {<<>>, NameGet, NameGetall}

\* A top-level ensemble gets and loses native parts of any name, the
\* empty string included, and the names are looked up.
NextNames ==
    \/ \E t \in TopNames : Itcl_CreateEnsemble(<<t>>, HostOk)
    \/ \E path \in PartPaths, n \in AnyNames, ok \in BOOLEAN :
           Itcl_AddEnsemblePart(path, n, NoUsage, ok)
    \/ \E e \in 1..MaxEns, pos \in 0..(Cardinality(AnyNames) - 1) :
           DeleteEnsemblePartOp(e, pos)
    \/ \E e \in 1..MaxEns, s \in AnyNames \cup {<<103>>} : LookupPart(e, s)

SpecNames == Init /\ [][NextNames]_vars

(* ------------------------------------------------------------------ *)
(* Vocabulary of the properties                                        *)
(* ------------------------------------------------------------------ *)

\* The names of a store, in array order.
Names(parts) == [i \in 1..Len(parts) |-> parts[i].name]

\* s is a leading prefix of n.
IsPrefix(s, n) == Len(s) <= Len(n) /\ SubSeq(n, 1, Len(s)) = s

\* a comes strictly before b in lexicographic order.
LexLess(a, b) ==
    \E k \in 1..(Len(a) + 1) :
        /\ \A j \in 1..(k - 1) : j <= Len(b) /\ a[j] = b[j]
        /\ k <= Len(b)
        /\ (k <= Len(a) => a[k] < b[k])

\* The first k characters of the C string s, its terminator included when
\* k reaches past the end.
FirstChars(s, k) ==
    IF k <= Len(s) THEN SubSeq(s, 1, k) ELSE s \o <<NUL>>

\* No other part of the store has the same first k characters as part i.
UniqueAt(parts, i, k) ==
    \A j \in 1..Len(parts) :
        j # i => FirstChars(parts[j].name, k) # FirstChars(parts[i].name, k)

\* The smallest k >= 1 such that no other part has the same first k
\* characters as part i.
SmallestUnique(parts, i) ==
    CHOOSE k \in 1..(Len(parts[i].name) + 1) :
        /\ UniqueAt(parts, i, k)
        /\ \A m \in 1..(k - 1) : ~UniqueAt(parts, i, m)

\* SmallestUnique, but never more than the length of the name.
CappedUnique(parts, i) ==
    IF SmallestUnique(parts, i) > Len(parts[i].name)
    THEN Len(parts[i].name)
    ELSE SmallestUnique(parts, i)

\* The parts that have s as a leading prefix, and those of them whose
\* minChars the length of s has reached.
Matching(parts, s) == {i \in 1..Len(parts) : IsPrefix(s, parts[i].name)}

Reached(parts, s) ==
    {i \in Matching(parts, s) : parts[i].minChars <= Len(s)}

\* The operation that returned last put a part into the store of last.e.
InsertSeen ==
    \/ last.op = "Itcl_AddEnsemblePart" /\ last.kind = "added"
    \/ last.op = "Itcl_EnsPartCmd" /\ last.kind = "added"
    \/ last.op = "Itcl_CreateEnsemble" /\ last.kind = "sub"
           /\ last.status = "OK"

\* The operation that returned last was a lookup by abbreviation.
LookupSeen == last.op = "FindEnsemblePart"

(* ------------------------------------------------------------------ *)
(* C1                                                                  *)
(* ------------------------------------------------------------------ *)

\* C1: between calls, after any insertions and deletions, the parts array
\* of every ensemble is strictly increasing by name: sorted
\* lexicographically, no name twice.
C1_StrictlyIncreasing ==
    \A e \in 1..Len(ens) :
        \A i \in 1..(Len(ens[e].parts) - 1) :
            LexLess(ens[e].parts[i].name, ens[e].parts[i + 1].name)

\* A part has just been inserted into a store of three or more parts out
\* of which a part had been deleted before.
C1_Witness ==
    /\ InsertSeen
    /\ ens[last.e].removed
    /\ Len(ens[last.e].parts) >= 3

(* ------------------------------------------------------------------ *)
(* C2                                                                  *)
(* ------------------------------------------------------------------ *)

C3_AsStated ==
    InsertSeen =>
        \A i \in 1..Len(ens[last.e].parts) :
            ens[last.e].parts[i].minChars
                = SmallestUnique(ens[last.e].parts, i)

\* C3: the smallest k >= 1 such that no other part has the same first k
\* characters, capped at the length of the name, is the minChars of the
\* part just inserted and of its two neighbours, and of every part of a
\* store no part was ever deleted from; every other part has a minChars
\* between that value and the length of its name.
C3_MinChars ==
    /\ \A e \in 1..Len(ens) :
           \A i \in 1..Len(ens[e].parts) :
               /\ CappedUnique(ens[e].parts, i) <= ens[e].parts[i].minChars
               /\ ens[e].parts[i].minChars <= Len(ens[e].parts[i].name)
               /\ ~ens[e].removed
                      => ens[e].parts[i].minChars
                             = CappedUnique(ens[e].parts, i)
    /\ InsertSeen =>
           \A i, j \in 1..Len(ens[last.e].parts) :
               (ens[last.e].parts[j].name = last.name
                    /\ i \in {j - 1, j, j + 1})
               => ens[last.e].parts[i].minChars
                      = CappedUnique(ens[last.e].parts, i)

\* A part has just been inserted into a store that holds a part with a
\* minChars left too large by a deletion.
C3_Witness ==
    /\ InsertSeen
    /\ \E i \in 1..Len(ens[last.e].parts) :
           ens[last.e].parts[i].minChars
               > CappedUnique(ens[last.e].parts, i)

(* ------------------------------------------------------------------ *)
(* C4                                                                  *)
(* ------------------------------------------------------------------ *)

\* Ensemble e holds exactly "get", "getall" and "set", put there by
\* insertions alone.
GetGetallSet(e) ==
    /\ ~ens[e].freed
    /\ ~ens[e].removed
    /\ Names(ens[e].parts) = <<NameGet, NameGetall, NameSet>>

\* C4: in a store built by inserting "get", "getall" and "set" in any
\* order, minChars("get") = 3 and minChars("set") = 1; "g" and "ge" are
\* each ambiguous with the candidates get, getall in that order; "get"
\* finds the part "get"; "s" finds the part "set".
C4_Scenario ==
    \A e \in 1..Len(ens) :
        GetGetallSet(e) =>
            /\ ens[e].parts[1].minChars = 3
            /\ ens[e].parts[3].minChars = 1
            /\ FindEnsemblePart(ens[e].parts, <<103>>)
                   = [status |-> "ERROR", pos |-> -1,
                      cands |-> <<NameGet, NameGetall>>]
            /\ FindEnsemblePart(ens[e].parts, <<103, 101>>)
                   = [status |-> "ERROR", pos |-> -1,
                      cands |-> <<NameGet, NameGetall>>]
            /\ FindEnsemblePart(ens[e].parts, NameGet)
                   = [status |-> "OK", pos |-> 0, cands |-> <<>>]
            /\ FindEnsemblePart(ens[e].parts, <<115>>)
                   = [status |-> "OK", pos |-> 2, cands |-> <<>>]

\* "ge" has just been looked up in such a store and was reported ambiguous
\* between get and getall.
C4_Witness ==
    /\ LookupSeen
    /\ GetGetallSet(last.e)
    /\ last.name = <<103, 101>>
    /\ last.status = "ERROR"
    /\ last.cands = <<NameGet, NameGetall>>

(* ------------------------------------------------------------------ *)
(* C5                                                                  *)
(* ------------------------------------------------------------------ *)

\* This step is an insertion, by Itcl_AddEnsemblePart, the `part` verb or
\* the creation of a sub-ensemble, of a name the ensemble already has.
DuplicateInsert ==
    /\ \/ last'.op \in {"Itcl_AddEnsemblePart", "Itcl_EnsPartCmd"}
              /\ last'.kind \in {"exists", "added"}
       \/ last'.op = "Itcl_CreateEnsemble" /\ last'.kind = "sub"
    /\ last'.e \in 1..Len(ens)
    /\ \E i \in 1..Len(ens[last'.e].parts) :
           ens[last'.e].parts[i].name = last'.name

\* C5: inserting a name that a part of the ensemble already has fails with
\* the "already exists in ensemble" error and leaves the part store (the
\* names, their order, numParts, every minChars) as it was.
C5_DuplicateRejected ==
    [][DuplicateInsert =>
           /\ last'.status = "ERROR"
           /\ last'.kind \in {"exists", "sub"}
           /\ ens'[last'.e].parts = ens[last'.e].parts]_vars

\* An insertion has just been refused because the name exists, in a store
\* of two parts or more.
C5_Witness ==
    /\ last.op = "Itcl_AddEnsemblePart"
    /\ last.kind = "exists"
    /\ last.status = "ERROR"
    /\ Len(ens[last.e].parts) >= 2

(* ------------------------------------------------------------------ *)
(* C6                                                                  *)
(* ------------------------------------------------------------------ *)

\* C6 as stated: after Itcl_AddEnsemblePart succeeds for a new name, an
\* exact lookup of the name finds the part just added; after
\* DeleteEnsemblePart on a part so added, an exact lookup of its name
\* reports not-found and numParts is one less.
C6_RoundTrip ==
    [][/\ (last'.op = "Itcl_AddEnsemblePart" /\ last'.status = "OK")
              => /\ FindEnsemblePartIndex(ens'[last'.e].parts,
                                          last'.name).found
                 /\ ens'[last'.e].parts[
                        FindEnsemblePartIndex(ens'[last'.e].parts,
                                              last'.name).pos + 1].name
                        = last'.name
       /\ (last'.op = "DeleteEnsemblePart"
               /\ ens[last'.e].parts[last'.pos + 1].flags
                      = ITCL_ENSEMBLE_CUSTOM)
              => /\ ~FindEnsemblePartIndex(ens'[last'.e].parts,
                                           last'.name).found
                 /\ Len(ens'[last'.e].parts)
                        = Len(ens[last'.e].parts) - 1]_vars

\* DeleteEnsemblePart has returned for a part added by
\* Itcl_AddEnsemblePart, and the part is still in the store.
C6_Witness ==
    /\ last.op = "DeleteEnsemblePart"
    /\ \E i \in 1..Len(ens[last.e].parts) :
           /\ ens[last.e].parts[i].name = last.name
           /\ ens[last.e].parts[i].flags = ITCL_ENSEMBLE_CUSTOM

(* ------------------------------------------------------------------ *)
(* C7                                                                  *)
(* ------------------------------------------------------------------ *)

\* C7 as stated: while DeleteEnsemble runs, each call of
\* DeleteEnsemblePart(parts[0]) removes that part from the store, so that
\* the loop ends with numParts = 0.
C7_EachCallRemoves ==
    del.e # 0 => Len(ens[del.e].parts) = del.start - del.calls

\* DeleteEnsemble has called DeleteEnsemblePart(parts[0]) MaxIter times
\* and the store is as full as when it began.
C7_Witness ==
    /\ del.e # 0
    /\ del.calls = MaxIter
    /\ del.start > 0
    /\ Len(ens[del.e].parts) = del.start

(* ------------------------------------------------------------------ *)
(* C8                                                                  *)
(* ------------------------------------------------------------------ *)

\* C8 as stated: when the host has deleted the command of an ensemble,
\* every part of the ensemble is deleted and the handle map has no entry
\* that refers to the ensemble.
C8_HostDeleteCascades ==
    last.op = "HostDeleteCommand" =>
        \A e \in 1..Len(ens) :
            ens[e].cmd = last.e =>
                /\ ens[e].parts = <<>>
                /\ \A h \in DOMAIN ensembles : ensembles[h] # e

\* The host has deleted the command of an ensemble that still holds a
\* part and is still in the handle map.
C8_Witness ==
    /\ last.op = "HostDeleteCommand"
    /\ \E e \in 1..Len(ens) :
           /\ ens[e].cmd = last.e
           /\ ens[e].parts # <<>>
           /\ last.e \in DOMAIN ensembles
           /\ ensembles[last.e] = e

(* ------------------------------------------------------------------ *)
(* C9                                                                  *)
(* ------------------------------------------------------------------ *)

\* C9: the parser's current ensemble behaves like a stack.  When an
\* invocation of the `ensemble` verb returns, with success or with an
\* error, at any depth, the context is what it was when the invocation
\* started; it is NULL whenever no invocation is being evaluated.
C9_ContextIsStack ==
    /\ [][Len(frames') < Len(frames)
              => parserEnsData' = frames[Len(frames)].entry]_vars
    /\ [][(last'.op = "Itcl_EnsembleCmd" /\ Len(frames') = Len(frames))
              => parserEnsData' = parserEnsData]_vars
    /\ [](frames = <<>> => parserEnsData = 0)

\* A nested invocation of the verb has just returned an error into the
\* body of the invocation around it, whose ensemble is current again.
C9_Witness ==
    /\ last.op = "Itcl_EnsembleCmd"
    /\ last.kind = "body"
    /\ last.status = "ERROR"
    /\ Len(frames) = 1
    /\ parserEnsData = frames[1].target
    /\ parserEnsData # last.e

(* ------------------------------------------------------------------ *)
(* C10                                                                 *)
(* ------------------------------------------------------------------ *)

\* The unknown-handler has just answered a call with three arguments or
\* more for a registered ensemble.
UnknownSeen ==
    /\ last.op = "EnsembleUnknownCmd"
    /\ last.kind \in {"redirect", "badoption", "ambiguous"}

\* The ensemble of the call has a part named "@error".
HasAtError ==
    \E i \in 1..Len(ens[last.e].parts) :
        ens[last.e].parts[i].name = NameAtError

Breaks(text) ==
    {0, Len(text) + 1} \cup {i \in 1..Len(text) : text[i] = 10}

\* The k-th of these positions, counted from 0.
BreakAt(text, k) ==
    CHOOSE b \in Breaks(text) :
        Cardinality({c \in Breaks(text) : c < b}) = k

\* The lines of a text: the pieces between its newline characters.
Lines(text) ==
    [k \in 1..(Cardinality(Breaks(text)) - 1) |->
        SubSeq(text, BreakAt(text, k - 1) + 1, BreakAt(text, k) - 1)]

\* "...and others described on the man page", as a line.
OthersText == SubSeq(OthersLine, 2, Len(OthersLine))

\* line is the entry of a part called name of the top-level ensemble whose
\* command is called cmdName: two spaces, the command, the part, and then
\* nothing or a space and the arguments.
EntryFor(line, cmdName, name) ==
    /\ IsPrefix(Spaces \o cmdName \o <<32>> \o name, line)
    /\ \/ Len(line) = 3 + Len(cmdName) + Len(name)
       \/ line[4 + Len(cmdName) + Len(name)] = 32

\* The part is one the summary lists.
IsListed(part) == part.name \notin {NameAtError, NameItclBuiltinInfo}

\* The lines of a summary that are entries: those that start with a space.
IsEntry(line) == IF line = <<>> THEN FALSE ELSE line[1] = 32

\* The unknown-handler or the "bad option" handler has just rendered the
\* usage summary of the ensemble last.e into its message.
SummarySeen ==
    /\ last.op = "EnsembleUnknownCmd"
    /\ last.kind \in {"usage", "badoption"}

\* The unknown-handler has just answered a call for a registered ensemble
\* that named no part: fewer than three arguments.
NoPartNamed ==
    /\ last.op = "EnsembleUnknownCmd"
    /\ last.e # 0
    /\ last.name = <<>>

\* C11: called with fewer than three arguments for a registered ensemble,
\* the unknown-handler returns TCL_ERROR with the "wrong # args" message
\* followed by the usage summary, whether or not a part "@error" exists;
\* for the ensemble a with the parts "area" and "@error" the message has
\* three lines: the header, the entry of "area", and "...and others
\* described on the man page"; no line is an entry of "@error".
C11_UsageError ==
    NoPartNamed =>
        /\ last.status = "ERROR"
        /\ last.kind = "usage"
        /\ IsPrefix(WrongArgs, last.cands)
        /\ Names(ens[last.e].parts) = <<NameAtError, NameArea>>
               => /\ Len(Lines(last.cands)) = 3
                  /\ EntryFor(Lines(last.cands)[2], NameA, NameArea)
                  /\ Lines(last.cands)[3] = OthersText
                  /\ \A i \in 1..3 :
                         ~EntryFor(Lines(last.cands)[i], NameA, NameAtError)

\* The handler has just answered a call with no part name for the ensemble
\* with the parts "area" and "@error".
C11_Witness ==
    /\ NoPartNamed
    /\ last.kind = "usage"
    /\ Names(ens[last.e].parts) = <<NameAtError, NameArea>>

CreatedFor(r, path) ==
    /\ ~ens[r].freed
    /\ ens[r].parent.name = path[2]
    /\ ens[r].parent.ens # 0
    /\ ens[r].parent.ens = HashFind(ensembles, HostFind(cmds, 0, path[1]))
    /\ \E i \in 1..Len(ens[ens[r].parent.ens].parts) :
           /\ ens[ens[r].parent.ens].parts[i].name = path[2]
           /\ ens[ens[r].parent.ens].parts[i].cmdPtr = ens[r].cmd

\* FindEnsemble has just answered for a path of two names.
PathSeen == last.op = "FindEnsemble" /\ Len(last.cands) = 2

\* C13: when FindEnsemble resolves the path of a sub-ensemble that
\* Itcl_CreateEnsemble created, it returns TCL_OK and the Ensemble record
\* created for that sub-ensemble.
C13_PathYieldsRecord ==
    PathSeen =>
        \A r \in 1..Len(ens) :
            CreatedFor(r, last.cands)
                => last.status = "OK" /\ last.e = r

\* FindEnsemble has just resolved the path of a sub-ensemble with TCL_OK
\* and answered a pointer that is not the record of the sub-ensemble.
C13_Witness ==
    /\ PathSeen
    /\ last.status = "OK"
    /\ \E r \in 1..Len(ens) : CreatedFor(r, last.cands) /\ last.e # r

(* ------------------------------------------------------------------ *)
(* C14                                                                 *)
(* ------------------------------------------------------------------ *)

\* The operation that returned last was a CreateEnsemble that failed at an
\* installation step: its record, the newest one, was not released by the
\* failure of CreateEnsemblePart.
InstallFailed ==
    /\ last.op = "Itcl_CreateEnsemble"
    /\ last.status = "ERROR"
    /\ last.kind \in {"top", "sub"}
    /\ ~ens[Len(ens)].freed

\* The store of the parent of the failed creation holds a part of the
\* name that was to be created.
GatewayStays ==
    \E i \in 1..Len(ens[last.e].parts) :
        ens[last.e].parts[i].name = last.name

\* C14: when CreateEnsemble fails at an installation step the partial
\* state is rolled back before the error is returned: the handle map has no
\* entry for the command of the new ensemble and, for a sub-ensemble, the
\* store of the parent does not contain the gateway part.
C14_InstallRolledBack ==
    InstallFailed =>
        /\ numEnsembles \notin DOMAIN ensembles
        /\ last.kind = "sub" => ~GatewayStays

\* A sub-ensemble whose unknown-handler could not be set: TCL_ERROR was
\* returned, the gateway part is in the store of the parent and the handle
\* map has the entry of the new command.
C14_Witness ==
    /\ InstallFailed
    /\ last.kind = "sub"
    /\ GatewayStays
    /\ numEnsembles \in DOMAIN ensembles

(* ------------------------------------------------------------------ *)
(* C15                                                                 *)
(* ------------------------------------------------------------------ *)

\* The operation that returned last was an Itcl_AddEnsemblePart that
\* failed after CreateEnsemblePart had succeeded: the host returned no
\* command for the part.
PartInstallFailed ==
    /\ last.op = "Itcl_AddEnsemblePart"
    /\ last.status = "ERROR"
    /\ last.kind = "added"

\* C15: when AddEnsemblePart fails because the host cannot create the
\* command of the part, the part inserted by CreateEnsemblePart is rolled
\* back: after the failed call the part store of the ensemble does not
\* contain the new name.
C15_PartRolledBack ==
    PartInstallFailed =>
        \A i \in 1..Len(ens[last.e].parts) :
            ens[last.e].parts[i].name # last.name

\* The host returned no command for a part that was inserted between two
\* others: TCL_ERROR was returned and the part is in the store, with the
\* flags AddEnsemblePart gave it.
C15_Witness ==
    /\ PartInstallFailed
    /\ Len(ens[last.e].parts) >= 2
    /\ \E i \in 1..Len(ens[last.e].parts) :
           /\ ens[last.e].parts[i].name = last.name
           /\ ens[last.e].parts[i].flags = ITCL_ENSEMBLE_CUSTOM
           /\ ens[last.e].parts[i].cmdPtr = 0

(* ------------------------------------------------------------------ *)
(* C16                                                                 *)
(* ------------------------------------------------------------------ *)

\* C16: ensemble ids are unique and strictly increasing in creation order:
\* of any two Ensemble records ever made by CreateEnsemble, by calls that
\* succeeded or failed, the later one has the larger ensembleId, also when
\* the earlier one has been deleted; no id exceeds the counter.
C16_IdsIncrease ==
    /\ \A i \in 1..Len(ens) : \A j \in 1..Len(ens) :
           i < j => ens[i].ensembleId < ens[j].ensembleId
    /\ \A i \in 1..Len(ens) :
           /\ ens[i].ensembleId >= 1
           /\ ens[i].ensembleId <= numEnsembles

\* An ensemble has been created after an earlier record was released, by a
\* deletion or by a creation that failed.
C16_Witness ==
    /\ last.op = "Itcl_CreateEnsemble"
    /\ last.status = "OK"
    /\ Len(ens) >= 2
    /\ ens[1].freed
    /\ ~ens[Len(ens)].freed

(* ------------------------------------------------------------------ *)
(* C17                                                                 *)
(* ------------------------------------------------------------------ *)

\* The part the parent field of record c points to is in the store of an
\* ensemble that has not been released, and its cmdPtr is the command of c.
ParentPartLive(c) ==
    /\ ~ens[ens[c].parent.ens].freed
    /\ \E i \in 1..Len(ens[ens[c].parent.ens].parts) :
           /\ ens[ens[c].parent.ens].parts[i].name = ens[c].parent.name
           /\ ens[ens[c].parent.ens].parts[i].cmdPtr = ens[c].cmd

\* The Ensemble records that have not been released and have a parent.
Children == {c \in 1..Len(ens) : ~ens[c].freed /\ ens[c].parent # NoParent}

\* C17: in every reachable state every Ensemble whose parent is set points
\* to a part that is present in the store of a live ensemble and whose
\* cmdPtr is the command of that Ensemble, also after its gateway part or
\* its parent ensemble has been deleted.
C17_ParentPointsToLivePart ==
    \A c \in Children : ParentPartLive(c)

\* DeleteEnsemblePart has removed the gateway part of a sub-ensemble: the
\* record of the sub-ensemble is still in the handle map under its command
\* and its parent still names the removed part.
C17_Witness ==
    /\ last.op = "DeleteEnsemblePart"
    /\ \E c \in Children :
           /\ ens[c].parent = [ens |-> last.e, name |-> last.name]
           /\ HashFind(ensembles, ens[c].cmd) = c
           /\ \A i \in 1..Len(ens[last.e].parts) :
                  ens[last.e].parts[i].name # last.name

(* ------------------------------------------------------------------ *)
(* C18                                                                 *)
(* ------------------------------------------------------------------ *)

\* Ensemble e is live: its record has not been released and the host still
\* has its command.
LiveEnsemble(e) ==
    /\ ~ens[e].freed
    /\ ens[e].cmd # 0
    /\ HandleLive(World, ens[e].cmd)

\* C18: in every reachable state the handle map maps the command of every
\* live ensemble, top-level or sub-ensemble, to the record of that
\* ensemble, and every entry of the map refers to a live ensemble whose cmd
\* is the key of the entry.
C18_HandleMapExact ==
    /\ \A e \in 1..Len(ens) :
           LiveEnsemble(e) => HashFind(ensembles, ens[e].cmd) = e
    /\ \A h \in DOMAIN ensembles :
           /\ LiveEnsemble(ensembles[h])
           /\ ens[ensembles[h]].cmd = h

\* The host has deleted the command of a sub-ensemble, and the handle map
\* still has the entry of that command.
C18_Witness ==
    /\ last.op = "HostDeleteCommand"
    /\ ~HandleLive(World, last.e)
    /\ HashFind(ensembles, last.e) # 0
    /\ ens[HashFind(ensembles, last.e)].parent # NoParent
    /\ ens[HashFind(ensembles, last.e)].cmd = last.e

(* ------------------------------------------------------------------ *)
(* C19                                                                 *)
(* ------------------------------------------------------------------ *)

\* The operation that returned last was a probing lookup that returned 0.
ProbeFailed(l) ==
    /\ l.op \in {"Itcl_GetEnsemblePart", "Itcl_GetEnsembleUsage"}
    /\ l.status = "ERROR"

\* C19: the probing lookups Itcl_GetEnsemblePart and Itcl_GetEnsembleUsage
\* leave no error visible to the caller: whenever one of them returns 0,
\* for an unparsable or empty path, an unknown ensemble, or an ambiguous or
\* missing part, the result and error state of the interpreter are exactly
\* what they were before the call.
C19_ProbeLeavesNoTrace ==
    [][ProbeFailed(last') => last'.interp = last.interp]_vars

\* Itcl_GetEnsemblePart returned 0 for an ambiguous abbreviation, whose
\* message FindEnsemblePart had put into the interpreter, and the
\* interpreter holds the message an earlier operation left.
C19_Witness ==
    /\ ProbeFailed(last)
    /\ last.op = "Itcl_GetEnsemblePart"
    /\ last.kind = "ambiguous"
    /\ last.interp # NoResult

(* ------------------------------------------------------------------ *)
(* C20                                                                 *)
(* ------------------------------------------------------------------ *)

\* The ensembles a path resolves to: the registered ensemble of the
\* command a single name names, the sub-ensemble created for two names.
PathEnsembles(path) ==
    IF Len(path) = 1
    THEN {e \in 1..Len(ens) :
              /\ ~ens[e].freed
              /\ e = HashFind(ensembles, HostFind(cmds, 0, path[1]))}
    ELSE IF Len(path) = 2
    THEN {r \in 1..Len(ens) : CreatedFor(r, path)}
    ELSE {}

\* s is the name of a part of ensemble e, or a leading prefix of the name
\* of exactly one part.
NamesPart(e, s) ==
    \/ \E i \in 1..Len(ens[e].parts) : ens[e].parts[i].name = s
    \/ Cardinality(Matching(ens[e].parts, s)) = 1

\* Itcl_GetEnsemblePart has just returned.
PartProbed == last.op = "Itcl_GetEnsemblePart" /\ last.status # "PANIC"

\* C20: Itcl_GetEnsemblePart(ensPath, partName) returns 1 whenever ensPath
\* resolves to an ensemble and partName is the name or an unambiguous
\* abbreviation of a part of that ensemble, in particular for every part
\* added with Itcl_AddEnsemblePart, and 0 otherwise.
C20_FoundIffPart ==
    PartProbed =>
        (last.status = "OK"
             <=> \E e \in PathEnsembles(last.cands) : NamesPart(e, last.name))

\* Itcl_GetEnsemblePart has returned 0 for the full name of a part that
\* Itcl_AddEnsemblePart added to a top-level ensemble: the part is in the
\* store and its cmdPtr is NULL.
C20_Witness ==
    /\ PartProbed
    /\ last.status = "ERROR"
    /\ last.kind = "nocmd"
    /\ Len(last.cands) = 1
    /\ \E e \in PathEnsembles(last.cands) :
           \E i \in 1..Len(ens[e].parts) :
               /\ ens[e].parts[i].name = last.name
               /\ ens[e].parts[i].flags = ITCL_ENSEMBLE_CUSTOM
               /\ ens[e].parts[i].cmdPtr = 0

(* ------------------------------------------------------------------ *)
(* C21                                                                 *)
(* ------------------------------------------------------------------ *)

\* The registered ensemble of the command a top-level name names, 0 for
\* none.
TopOf(name) == HashFind(ensembles, HostFind(cmds, 0, name))

\* In the store parts the name s is missing, is ambiguous, or is the name
\* or the only completion of a part that is no sub-ensemble.
StepBroken(parts, s) ==
    \/ Matching(parts, s) = {}
    \/ /\ Cardinality(Matching(parts, s)) >= 2
       /\ \A i \in Matching(parts, s) : parts[i].name # s
    \/ \E i \in Matching(parts, s) :
           /\ parts[i].name = s \/ Cardinality(Matching(parts, s)) = 1
           /\ parts[i].cmdPtr = 0

\* The names before the last of path do not lead to an ensemble: the path
\* is empty, its first name is no registered ensemble, or its second of
\* three names is missing, ambiguous or no sub-ensemble.
PathBroken(path) ==
    \/ Len(path) = 0
    \/ Len(path) >= 2 /\ TopOf(path[1]) = 0
    \/ /\ Len(path) = 3
       /\ TopOf(path[1]) # 0
       /\ StepBroken(ens[TopOf(path[1])].parts, path[2])

\* The last of the two names of path is the name of a part of the
\* ensemble the first name leads to.
LastNameTaken(path) ==
    /\ Len(path) = 2
    /\ TopOf(path[1]) # 0
    /\ \E i \in 1..Len(ens[TopOf(path[1])].parts) :
           ens[TopOf(path[1])].parts[i].name = path[2]

Abbrev(parts, i) == SubSeq(parts[i].name, 1, parts[i].minChars)

\* The immediate neighbours of part i in the store.
Neighbours(parts, i) == {i - 1, i + 1} \cap (1..Len(parts))

\* C22 as stated: after any insertion, for every part p of the store, the
\* first p.minChars characters of p.name are not a prefix of the name of
\* the left neighbour of p nor of its right neighbour, also when p.name is
\* itself a prefix of a neighbour.
C22_AsStated ==
    InsertSeen =>
        \A i \in 1..Len(ens[last.e].parts) :
            \A j \in Neighbours(ens[last.e].parts, i) :
                ~IsPrefix(Abbrev(ens[last.e].parts, i),
                          ens[last.e].parts[j].name)

\* C22: in every store, for every part p and each immediate neighbour q of
\* p, the first p.minChars characters of p.name are not a prefix of q.name,
\* unless the whole of p.name is a prefix of q.name: then q is the right
\* neighbour and p.minChars is the length of p.name.
C22_NeighbourPrefix ==
    \A e \in 1..Len(ens) :
        \A i \in 1..Len(ens[e].parts) :
            \A j \in Neighbours(ens[e].parts, i) :
                IsPrefix(Abbrev(ens[e].parts, i), ens[e].parts[j].name)
                    => /\ IsPrefix(ens[e].parts[i].name,
                                   ens[e].parts[j].name)
                       /\ ens[e].parts[i].minChars
                              = Len(ens[e].parts[i].name)
                       /\ j = i + 1

\* A part has just been inserted into a store in which the name of a part
\* is a prefix of the name of its right neighbour, and a third part has a
\* left neighbour that shares its first character.
C22_Witness ==
    /\ InsertSeen
    /\ \E i \in 1..Len(ens[last.e].parts) :
           /\ i + 1 \in Neighbours(ens[last.e].parts, i)
           /\ IsPrefix(ens[last.e].parts[i].name,
                       ens[last.e].parts[i + 1].name)
           /\ ens[last.e].parts[i].minChars = Len(ens[last.e].parts[i].name)
    /\ \E i \in 1..Len(ens[last.e].parts) :
           /\ i - 1 \in Neighbours(ens[last.e].parts, i)
           /\ ens[last.e].parts[i].minChars >= 2
           /\ ~IsPrefix(ens[last.e].parts[i - 1].name,
                        ens[last.e].parts[i].name)

(* ------------------------------------------------------------------ *)
(* C23                                                                 *)
(* ------------------------------------------------------------------ *)

\* C23: in every reachable state every part has a non-empty name and a
\* minChars of at least 1 and at most the length of its name, for every
\* part name that the insert operations accept.
C23_NameAndWidth ==
    \A e \in 1..Len(ens) :
        \A i \in 1..Len(ens[e].parts) :
            /\ Len(ens[e].parts[i].name) >= 1
            /\ ens[e].parts[i].minChars >= 1
            /\ ens[e].parts[i].minChars <= Len(ens[e].parts[i].name)

\* Itcl_AddEnsemblePart has returned TCL_OK for the name "": the part is
\* the first of the store, before "get", and its minChars is 0.
C23_Witness ==
    /\ last.op = "Itcl_AddEnsemblePart"
    /\ last.status = "OK"
    /\ last.name = <<>>
    /\ Len(ens[last.e].parts) >= 2
    /\ ens[last.e].parts[1].name = <<>>
    /\ ens[last.e].parts[1].minChars = 0

(* ------------------------------------------------------------------ *)
(* C24                                                                 *)
(* ------------------------------------------------------------------ *)

\* C24: the `part` / `option` verb requires a current ensemble: invoked
\* while the current ensemble of the parser is empty it fails with an error
\* and registers no part; invoked with a number of arguments other than
\* name, params, body it fails with a "wrong # args" error and registers no
\* part.
C24_PartNeedsContext ==
    [][last'.op = "Itcl_EnsPartCmd" =>
          /\ parserEnsData = 0 =>
                 /\ last'.status = "ERROR"
                 /\ ens' = ens
          /\ Len(last'.cands) # 3 =>
                 /\ last'.status = "ERROR"
                 /\ last'.kind = "wrongargs"
                 /\ ens' = ens]_vars

\* The `part` verb was invoked with name, params and body after the body
\* of an `ensemble` verb had returned and left the current ensemble empty:
\* the program read through the null pointer and crashed.
C24_Witness ==
    /\ last.op = "Itcl_EnsPartCmd"
    /\ last.e = 0
    /\ Len(last.cands) = 3
    /\ last.status = "PANIC"
    /\ parserEnsData = 0
    /\ frames = <<>>
    /\ Len(ens) >= 1

(* ------------------------------------------------------------------ *)
(* C25                                                                 *)
(* ------------------------------------------------------------------ *)

\* C25: while a definition body is evaluated the only verbs accepted are
\* `ensemble`, `part` and `option`: any other verb of the body yields an
\* error and is not executed.
C25_OnlyThreeVerbs ==
    last.op = "verb" =>
        /\ last.status = "ERROR"
        /\ last.kind = "unknown"

\* A command of the interpreter that is none of the three verbs has been
\* executed in the body of an `ensemble` verb and has returned TCL_OK; the
\* evaluation of the body goes on.
C25_Witness ==
    /\ last.op = "verb"
    /\ last.status = "OK"
    /\ last.kind = "executed"
    /\ frames # <<>>
    /\ ~frames[Len(frames)].err
    /\ parserEnsData = frames[Len(frames)].target

(* ------------------------------------------------------------------ *)
(* C26                                                                 *)
(* ------------------------------------------------------------------ *)

\* Values of a part's clientData field: NULL, or a reference (the Proc of a
\* part defined by the verbs, the caller's data of a native part).
PartClientData == {0, 1}

\* Results a handler gives back to the shim.
HandlerResults == {"OK", "ERROR"}

\* EnsembleSubCmd on a part with the given flags and clientData, result
\* being what the handler returns if one is invoked.  An ensemble-style
\* part with a NULL clientData returns TCL_ERROR at once: no handler is
\* invoked, no message is set, and Tcl_Panic is not called.
EnsembleSubCmd(flags, clientData, result) ==
    IF (flags \div ITCL_ENSEMBLE_ENSEMBLE) % 2 = 1
    THEN IF clientData = 0
         THEN [status |-> "ERROR", invoked |-> "none"]
         ELSE [status |-> result, invoked |-> "Tcl_InvokeNamespaceProc"]
    ELSE [status |-> result, invoked |-> "objProc"]

\* EnsembleSubCmd is handed an EnsemblePart with the flags of the part at
\* pos of ensemble e and a clientData drawn from the values the field can
\* hold, so that each branch of the procedure is taken.
EnsembleSubCmdCall(e, pos, clientData, result) ==
    /\ Ready /\ BodyRuns
    /\ Usable(World, e)
    /\ pos \in 0..(Len(ens[e].parts) - 1)
    /\ ens[e].parts[pos + 1].flags # 0
    /\ \E r \in {EnsembleSubCmd(ens[e].parts[pos + 1].flags, clientData,
                                result)} :
           last' = Obs("EnsembleSubCmd", e, ens[e].parts[pos + 1].name,
                       r.status, r.invoked, pos,
                       <<ens[e].parts[pos + 1].flags, clientData>>)
    /\ UNCHANGED <<ens, numEnsembles, ensembles, cmds, parserEnsData,
                   frames, del>>

\* The part commands at work: ensembles and their parts are defined by the
\* verbs and by Itcl_AddEnsemblePart, and the host invokes the parts.
NextShim ==
    \/ \E n \in TopNames : Itcl_EnsembleCmd(3, n)
    \/ Itcl_EnsembleCmdReturn
    \/ \E n \in FewNames : Itcl_EnsPartCmd(4, n, "ok")
    \/ \E path \in PartPaths, n \in PathNames :
           Itcl_AddEnsemblePart(path, n, NoUsage, TRUE)
    \/ \E e \in 1..MaxEns, pos \in 0..3, clientData \in PartClientData,
          result \in HandlerResults :
           EnsembleSubCmdCall(e, pos, clientData, result)

SpecShim == Init /\ [][NextShim]_vars

NoCmdInfo == [null |-> TRUE, deleteProc |-> "NULL"]

EnsembleCmdInfo == [null |-> FALSE, deleteProc |-> "TclEnsemble"]

PartCmdInfo == [null |-> FALSE, deleteProc |-> "NULL"]

\* Itcl_IsEnsemble(infoPtr).
Itcl_IsEnsemble(infoPtr) ==
    IF ~infoPtr.null
    THEN IF infoPtr.deleteProc = "DeleteEnsemble" THEN 1 ELSE 0
    ELSE 0

\* Itcl_IsEnsemble on NULL (h = 0) or on the command info of the live
\* access command h.
IsEnsembleOfCommand(h) ==
    /\ Ready /\ BodyRuns
    /\ IF h = 0
       THEN last' = Obs("Itcl_IsEnsemble", 0, <<>>, "OK", "null",
                        Itcl_IsEnsemble(NoCmdInfo), <<>>)
       ELSE /\ HandleLive(World, h)
            /\ last' = Obs("Itcl_IsEnsemble", h, cmds[h].name, "OK",
                           "ensemble", Itcl_IsEnsemble(EnsembleCmdInfo),
                           <<>>)
    /\ UNCHANGED <<ens, numEnsembles, ensembles, cmds, parserEnsData,
                   frames, del>>

\* Itcl_IsEnsemble on the command info of the callable of the part at pos
\* of ensemble e.
IsEnsembleOfPart(e, pos) ==
    /\ Ready /\ BodyRuns
    /\ Usable(World, e)
    /\ pos \in 0..(Len(ens[e].parts) - 1)
    /\ ens[e].parts[pos + 1].flags # 0
    /\ last' = Obs("Itcl_IsEnsemble", e, ens[e].parts[pos + 1].name, "OK",
                   "part", Itcl_IsEnsemble(PartCmdInfo), <<>>)
    /\ UNCHANGED <<ens, numEnsembles, ensembles, cmds, parserEnsData,
                   frames, del>>

\* Ensembles are created by Itcl_CreateEnsemble and by the verb, at top
\* level and below, parts are added, and commands are asked about.
NextIsEnsemble ==
    \/ \E path \in DeepPaths : Itcl_CreateEnsemble(path, HostOk)
    \/ \E n \in TopNames \cup FewNames : Itcl_EnsembleCmd(3, n)
    \/ Itcl_EnsembleCmdReturn
    \/ \E path \in PartPaths, n \in PathNames :
           Itcl_AddEnsemblePart(path, n, NoUsage, TRUE)
    \/ \E h \in 0..MaxEns : IsEnsembleOfCommand(h)
    \/ \E e \in 1..MaxEns, pos \in 0..3 : IsEnsembleOfPart(e, pos)

SpecIsEnsemble == Init /\ [][NextIsEnsemble]_vars

\* C27: Itcl_IsEnsemble returns non-zero for the command info of every
\* access command of an ensemble of this registry, top-level or
\* sub-ensemble, and zero for NULL and for the command info of every other
\* command, the callables of the parts included.
C27_IsEnsembleExact ==
    last.op = "Itcl_IsEnsemble" =>
        IF last.kind = "ensemble" /\ last.e \in DOMAIN ensembles
        THEN last.pos # 0
        ELSE last.pos = 0

\* Itcl_IsEnsemble has answered 0 for the live access command of a live
\* sub-ensemble that the handle map registers.
C27_Witness ==
    /\ last.op = "Itcl_IsEnsemble"
    /\ last.kind = "ensemble"
    /\ last.pos = 0
    /\ last.e \in DOMAIN ensembles
    /\ HandleLive(World, last.e)
    /\ LiveEnsemble(ensembles[last.e])
    /\ ens[ensembles[last.e]].parent.ens # 0

(* ------------------------------------------------------------------ *)
(* C28                                                                 *)
(* ------------------------------------------------------------------ *)

\* GetEnsembleUsage reaches the part at pos of ensemble e and calls
\* GetEnsemblePartUsage(interp, ensData, ensData->parts[pos], objPtr) with
\* an empty objPtr.
GetEnsemblePartUsageCall(e, pos) ==
    /\ Ready /\ BodyRuns
    /\ Usable(World, e)
    /\ UsageDefined(World, e)
    /\ pos \in 0..(Len(ens[e].parts) - 1)
    /\ last' = Obs("GetEnsemblePartUsage", e, ens[e].parts[pos + 1].name,
                   "OK", "", pos,
                   GetEnsemblePartUsage(World, e, ens[e].parts[pos + 1]))
    /\ UNCHANGED <<ens, numEnsembles, ensembles, cmds, parserEnsData,
                   frames, del>>

\* Ensemble trees are built by the verbs and by the procedures of the
\* interface, and the usage entry of any part of any ensemble is rendered.
NextTrail ==
    \/ \E n \in TopNames \cup {NameGet} : Itcl_EnsembleCmd(3, n)
    \/ Itcl_EnsembleCmdReturn
    \/ Itcl_EnsPartCmd(4, NameSet, "ok")
    \/ \E path \in SubPaths({NameGet}) : Itcl_CreateEnsemble(path, HostOk)
    \/ \E t \in TopNames :
           Itcl_AddEnsemblePart(<<t>>, NameGetall, UsageR, TRUE)
    \/ \E e \in 1..MaxEns, pos \in 0..2 : GetEnsemblePartUsageCall(e, pos)

SpecTrail == Init /\ [][NextTrail]_vars

\* The positions that bound the words of a text: before its first
\* character, at each space, and after its last character.
WordBreaks(text) ==
    {0, Len(text) + 1} \cup {i \in 1..Len(text) : text[i] = 32}

\* The k-th of these positions, counted from 0.
WordBreakAt(text, k) ==
    CHOOSE b \in WordBreaks(text) :
        Cardinality({c \in WordBreaks(text) : c < b}) = k

\* The words of a text: the pieces between its spaces.
Words(text) ==
    [k \in 1..(Cardinality(WordBreaks(text)) - 1) |->
        SubSeq(text, WordBreakAt(text, k - 1) + 1,
               WordBreakAt(text, k) - 1)]

\* Part name of ensemble p is the gateway to ensemble c.
GatewayTo(p, name, c) ==
    \E i \in 1..Len(ens[p].parts) :
        /\ ens[p].parts[i].name = name
        /\ ens[p].parts[i].cmdPtr = ens[c].cmd

\* The ways down from a top-level ensemble to ensemble e: sequences of
\* ensembles, each but the first entered through a gateway part of the one
\* before it.
WaysDown(e) ==
    {c \in UNION {[1..n -> 1..Len(ens)] : n \in 1..Len(ens)} :
        /\ c[Len(c)] = e
        /\ ens[c[1]].parent = NoParent
        /\ \A i \in 2..Len(c) :
               /\ ens[c[i]].parent # NoParent
               /\ ens[c[i]].parent.ens = c[i - 1]
               /\ GatewayTo(c[i - 1], ens[c[i]].parent.name, c[i])}

\* The names along a way down, and then the name of a part: the access
\* name of the top-level ensemble, the gateway parts from the top down,
\* and the part.
NamesAlong(c, partName) ==
    [k \in 1..(Len(c) + 1) |->
        IF k = 1 THEN cmds[ens[c[1]].cmd].name
        ELSE IF k <= Len(c) THEN ens[c[k]].parent.name
        ELSE partName]

\* C28: for every part of every ensemble of a reachable ensemble tree the
\* usage trail is built in finitely many steps (every parent link leads to
\* an ensemble created earlier, and there is exactly one way down to each
\* ensemble) and consists of the access name of the top-level ensemble,
\* the names of the gateway parts on the way down to the part's ensemble
\* in top-down order, and the name of the part, each once; what follows
\* the trail is the usage string of the part.
C28_TrailTopDown ==
    /\ \A e \in 1..Len(ens) :
           ~ens[e].freed =>
               /\ ens[e].parent # NoParent => ens[e].parent.ens \in 1..(e - 1)
               /\ Cardinality(WaysDown(e)) = 1
    /\ last.op = "GetEnsemblePartUsage" =>
           \A c \in WaysDown(last.e) :
               /\ Len(Words(last.cands)) >= Len(c) + 1
               /\ SubSeq(Words(last.cands), 1, Len(c) + 1)
                      = NamesAlong(c, last.name)
               /\ SubSeq(last.cands,
                         Len(AppendTrail(<<>>, NamesAlong(c, last.name), 1))
                             + 1,
                         Len(last.cands))
                      = PartUsageSuffix(ens[last.e].parts[last.pos + 1])

\* The usage entry of a part of a sub-ensemble has been rendered: the
\* trail has three names, the top-level command, the gateway part and the
\* part.
C28_Witness ==
    /\ last.op = "GetEnsemblePartUsage"
    /\ ens[last.e].parent # NoParent
    /\ ens[ens[last.e].parent.ens].parent = NoParent
    /\ Len(Words(last.cands)) = 3
    /\ Words(last.cands)[1] = NameA
    /\ Words(last.cands)[2] = ens[last.e].parent.name
    /\ Words(last.cands)[3] = last.name
    /\ Words(last.cands)[2] # last.name

(* ------------------------------------------------------------------ *)
(* C29                                                                 *)
(* ------------------------------------------------------------------ *)

\* Names offered to the `ensemble` verb: a top-level name, a part name and
\* its abbreviation "g".
VerbNames == TopNames \cup {NameGet, <<103>>}

\* The verbs at work with names and abbreviations of names.
NextVerb ==
    \/ \E n \in VerbNames : Itcl_EnsembleCmd(3, n)
    \/ Itcl_EnsembleCmdReturn
    \/ \E n \in {NameGetall, <<103>>} : Itcl_EnsPartCmd(4, n, "ok")

SpecVerb == Init /\ [][NextVerb]_vars

\* An `ensemble` verb with a body has just returned TCL_OK to a body of
\* the current ensemble: last.name is the name it was given and last.e the
\* ensemble its body was evaluated with.
VerbDoneInside ==
    /\ last.op = "Itcl_EnsembleCmd"
    /\ last.kind = "body"
    /\ last.status = "OK"
    /\ parserEnsData # 0

\* Ensemble c has a sub-ensemble part called exactly name whose ensemble
\* is e.
SubEnsemblePart(c, name, e) ==
    \E i \in 1..Len(ens[c].parts) :
        /\ ens[c].parts[i].name = name
        /\ ens[c].parts[i].cmdPtr # 0
        /\ HashFind(ensembles, ens[c].parts[i].cmdPtr) = e

\* C29: when `ensemble <name>` has completed successfully inside a current
\* ensemble C, C has a sub-ensemble part called exactly <name>, and the
\* body was evaluated with the ensemble of that part as the current
\* ensemble, also when <name> abbreviates another part of C.
C29_ExactNamedPart ==
    VerbDoneInside => SubEnsemblePart(parserEnsData, last.name, last.e)

\* `ensemble g` has completed successfully inside an ensemble that has the
\* sub-ensemble part "get" and no part called "g": its body was evaluated
\* with the ensemble of "get".
C29_Witness ==
    /\ VerbDoneInside
    /\ last.name = <<103>>
    /\ SubEnsemblePart(parserEnsData, NameGet, last.e)
    /\ \A i \in 1..Len(ens[parserEnsData].parts) :
           ens[parserEnsData].parts[i].name # <<103>>

(* ------------------------------------------------------------------ *)
(* C30                                                                 *)
(* ------------------------------------------------------------------ *)

\* The handle of a command of the interpreter that is no ensemble.
ForeignCmd == 100

\* The application defines a command called name at top level, a
\* procedure for example: Tcl_FindCommand finds it, the handle map does
\* not know it.
HostDefinesCommand(name) ==
    /\ Ready /\ BodyRuns
    /\ HostFind(cmds, 0, name) = 0
    /\ ForeignCmd \notin DOMAIN cmds
    /\ cmds' = HostCreate(cmds, ForeignCmd, 0, name)
    /\ last' = Obs("HostDefinesCommand", ForeignCmd, name, "OK", "", -1,
                   <<>>)
    /\ UNCHANGED <<ens, numEnsembles, ensembles, parserEnsData, frames, del>>

\* The verbs at work at top level and inside ensembles, beside a command
\* of the interpreter that is no ensemble.
NextFind ==
    \/ HostDefinesCommand(NameSet)
    \/ \E objc \in 2..3, n \in TopNames \cup FewNames :
           Itcl_EnsembleCmd(objc, n)
    \/ Itcl_EnsembleCmdReturn
    \/ Itcl_EnsPartCmd(4, NameGetall, "ok")

SpecFind == Init /\ [][NextFind]_vars

\* The step is an `ensemble` verb resolving its name (not the return from
\* a body).
VerbStep ==
    \/ last'.op = "EvalBody"
    \/ last'.op = "Itcl_EnsembleCmd" /\ last'.kind # "body"

\* The live commands called name in namespace ns.
CommandsNamed(ns, name) ==
    {h \in DOMAIN cmds :
        cmds[h].ns = ns /\ cmds[h].name = name /\ ~cmds[h].freed}

\* The handles name resolves to before the step: at top level the commands
\* of that name, inside an ensemble the commands of its sub-ensemble parts
\* called exactly name.
HandlesNamed(name) ==
    IF parserEnsData = 0 THEN CommandsNamed(0, name)
    ELSE {ens[parserEnsData].parts[i].cmdPtr :
              i \in {j \in 1..Len(ens[parserEnsData].parts) :
                        /\ ens[parserEnsData].parts[j].name = name
                        /\ ens[parserEnsData].parts[j].cmdPtr # 0}}

\* The part names of ensemble e, before and after the step.
PartNamesOf(e) == {ens[e].parts[i].name : i \in 1..Len(ens[e].parts)}

PartNamesAfter(e) == {ens'[e].parts[i].name : i \in 1..Len(ens'[e].parts)}

\* C30: the `ensemble <name>` verb is find-or-create.  When <name>
\* resolves to a registered ensemble already, a top-level ensemble command
\* or a sub-ensemble part called exactly <name> of the current ensemble,
\* the verb succeeds, no ensemble is created, the id counter and the
\* handle map are unchanged and the body is evaluated with the existing
\* ensemble; a part defined in a body is added to the ensemble of that
\* body beside the parts it has; and when a top-level <name> is a command
\* that is no registered ensemble the verb fails with "is not an
\* ensemble" and the command stays.
C30_FindOrCreate ==
    [][/\ VerbStep =>
              \A h \in HandlesNamed(last'.name) :
                  IF h \in DOMAIN ensembles
                  THEN /\ last'.status = "OK"
                       /\ last'.e = ensembles[h]
                       /\ numEnsembles' = numEnsembles
                       /\ ensembles' = ensembles
                       /\ ens' = ens
                       /\ cmds' = cmds
                       /\ last'.op = "EvalBody"
                              => parserEnsData' = ensembles[h]
                  ELSE /\ last'.status = "ERROR"
                       /\ last'.kind = "notensemble"
                       /\ cmds' = cmds
                       /\ numEnsembles' = numEnsembles
                       /\ ensembles' = ensembles
                       /\ ens' = ens
                       /\ parserEnsData' = parserEnsData
       /\ (last'.op = "Itcl_EnsPartCmd" /\ last'.status = "OK"
               /\ ens' # ens) =>
              /\ PartNamesAfter(parserEnsData)
                     = PartNamesOf(parserEnsData) \cup {last'.name}
              /\ Len(ens'[parserEnsData].parts)
                     = Len(ens[parserEnsData].parts) + 1
              /\ \A e \in 1..Len(ens) :
                     e # parserEnsData => ens'[e] = ens[e]]_vars

\* The body of `ensemble <name>` starts to be evaluated inside an ensemble
\* whose sub-ensemble part <name> existed and has a part of its own: the
\* verb found the sub-ensemble, and the counter still counts two ensembles.
C30_Witness ==
    /\ last.op = "EvalBody"
    /\ last.kind = "found"
    /\ parserEnsData = last.e
    /\ ens[last.e].parent # NoParent
    /\ Len(ens[last.e].parts) >= 1
    /\ numEnsembles = 2
    /\ Len(frames) = 2

(* ------------------------------------------------------------------ *)
(* C31                                                                 *)
(* ------------------------------------------------------------------ *)

\* The sequence parts without its k-th element.
Without(parts, k) ==
    [i \in 1..(Len(parts) - 1) |-> IF i < k THEN parts[i] ELSE parts[i + 1]]

\* The positions of after at which a part stands that before does not
\* have by name.
NewAt(before, after) ==
    {k \in 1..Len(after) :
        \A i \in 1..Len(before) : before[i].name # after[k].name}

\* C31: DeleteEnsemblePart leaves the remaining parts of the store as they
\* were, names, order and minChars, and the other stores untouched; and
\* the minChars of a part that stays in a store changes only in a step
\* that inserts a part next to it.
C31_DeleteKeepsWidths ==
    [][/\ last'.op = "DeleteEnsemblePart" =>
              /\ \A e \in 1..Len(ens) :
                     e # last'.e => ens'[e].parts = ens[e].parts
              /\ \/ ens'[last'.e].parts = ens[last'.e].parts
                 \/ /\ ens[last'.e].parts[last'.pos + 1].name = last'.name
                    /\ ens'[last'.e].parts
                           = Without(ens[last'.e].parts, last'.pos + 1)
       /\ \A e \in 1..Len(ens) :
              \A i \in 1..Len(ens[e].parts), j \in 1..Len(ens'[e].parts) :
                  (/\ ens[e].parts[i].name = ens'[e].parts[j].name
                   /\ ens[e].parts[i].minChars # ens'[e].parts[j].minChars)
                  => /\ Len(ens'[e].parts) = Len(ens[e].parts) + 1
                     /\ \E k \in NewAt(ens[e].parts, ens'[e].parts) :
                            j \in {k - 1, k + 1}]_vars

\* DeleteEnsemblePart has just removed a part from a store, and a part
\* that stayed has a minChars larger than its neighbours now call for.
C31_Witness ==
    /\ last.op = "DeleteEnsemblePart"
    /\ ens[last.e].removed
    /\ \A i \in 1..Len(ens[last.e].parts) :
           ens[last.e].parts[i].name # last.name
    /\ \E i \in 1..Len(ens[last.e].parts) :
           ens[last.e].parts[i].minChars
               > CappedUnique(ens[last.e].parts, i)

(* ------------------------------------------------------------------ *)
(* C32                                                                 *)
(* ------------------------------------------------------------------ *)

\* The string of the last lookup is a leading prefix of name.
AbbreviatedBy(name) == IsPrefix(last.name, name)

\* The last lookup reported "ambiguous option".
AmbiguitySeen == LookupSeen /\ last.status = "ERROR"

\* The candidates are the names of the store that have the string looked
\* up as a leading prefix, in store order, each once.
CandidatesExact ==
    /\ last.cands = SelectSeq(Names(ens[last.e].parts), AbbreviatedBy)
    /\ \A i, j \in 1..Len(last.cands) :
           i # j => last.cands[i] # last.cands[j]

GrowNames == PartNames \cup {<<k>> : k \in 104..110}

\* Itcl_CreateEnsemble(interp, t) in an interpreter that has no ensemble.
CreateFirstEnsemble(t) ==
    /\ numEnsembles = 0
    /\ Itcl_CreateEnsemble(<<t>>, HostOk)

\* One ensemble is created and its store is filled past its first
\* capacity.
NextGrow ==
    \/ \E t \in TopNames : CreateFirstEnsemble(t)
    \/ \E t \in TopNames, n \in GrowNames :
           Itcl_AddEnsemblePart(<<t>>, n, NoUsage, TRUE)

SpecGrow == Init /\ [][NextGrow]_vars

\* A part record without its minChars.
Unwidthed(part) == [part EXCEPT !.minChars = 0]

\* after is before with one part inserted at k: the parts of before are
\* all there, in the same order, and differ from what they were at most in
\* the minChars of the two parts next to k; the name at k is new.
InsertedAt(before, after, k) ==
    /\ k \in 1..Len(after)
    /\ Len(after) = Len(before) + 1
    /\ \A i \in 1..Len(before) : before[i].name # after[k].name
    /\ \A i \in 1..Len(before) :
           /\ Unwidthed(Without(after, k)[i]) = Unwidthed(before[i])
           /\ Without(after, k)[i].minChars # before[i].minChars
                  => i \in {k - 1, k}

\* C33: a successful insertion adds exactly the new part and changes
\* nothing else in the store but the minChars of the new part and of its
\* two neighbours: the parts stored before are all there in the same
\* order, also when the array was doubled, numParts grows by one,
\* numParts <= maxParts before and after, and maxParts never decreases.
C33_InsertFrame ==
    [][\A e \in 1..Len(ens) :
           /\ Len(ens[e].parts) <= ens[e].maxParts
           /\ Len(ens'[e].parts) <= ens'[e].maxParts
           /\ ens'[e].maxParts >= ens[e].maxParts
           /\ Len(ens'[e].parts) > Len(ens[e].parts) =>
                  \E k \in 1..Len(ens'[e].parts) :
                      InsertedAt(ens[e].parts, ens'[e].parts, k)]_vars

\* The eleventh part has just been inserted into a store whose array held
\* ten: the array was doubled, and the new part stands between two others.
C33_Witness ==
    /\ last.op = "Itcl_AddEnsemblePart"
    /\ last.status = "OK"
    /\ last.kind = "added"
    /\ Len(ens[last.e].parts) = InitMaxParts + 1
    /\ ens[last.e].maxParts = 2 * InitMaxParts
    /\ \E k \in 2..InitMaxParts : ens[last.e].parts[k].name = last.name

(* ------------------------------------------------------------------ *)
(* C34                                                                 *)
(* ------------------------------------------------------------------ *)

NameGeta == <<103, 101, 116, 97>>

\* Part names that share leading characters, so that a deletion between
\* two of them makes parts with a common prefix neighbours.
StaleNames == {NameGet, NameGeta, NameGetall, NameSet}

\* Strings looked up among these names.
StaleQueries == StaleNames \cup {<<103>>, <<103, 101>>, <<115>>}

\* Stores of names with common prefixes under inserts, deletes and lookups.
NextStale ==
    \/ \E t \in TopNames : CreateFirstEnsemble(t)
    \/ \E path \in SubPaths(StaleNames) : Itcl_CreateEnsemble(path, HostOk)
    \/ \E t \in TopNames, n \in StaleNames :
           Itcl_AddEnsemblePart(<<t>>, n, NoUsage, TRUE)
    \/ \E e \in 1..MaxEns, pos \in 0..(Cardinality(StaleNames) - 1) :
           DeleteEnsemblePartOp(e, pos)
    \/ \E e \in 1..MaxEns, s \in StaleQueries : LookupPart(e, s)

SpecStale == Init /\ [][NextStale]_vars

\* The length of the longest common leading run of two names.
CommonRun(p, q) ==
    Cardinality({k \in 1..Len(p) :
                    k <= Len(q) /\ SubSeq(p, 1, k) = SubSeq(q, 1, k)})

\* The longest common leading run of the name at i with either of its
\* neighbours in the store.
NeighbourRun(parts, i) ==
    IF i > 1 /\ i < Len(parts)
    THEN (IF CommonRun(parts[i].name, parts[i - 1].name)
                 > CommonRun(parts[i].name, parts[i + 1].name)
          THEN CommonRun(parts[i].name, parts[i - 1].name)
          ELSE CommonRun(parts[i].name, parts[i + 1].name))
    ELSE IF i > 1 THEN CommonRun(parts[i].name, parts[i - 1].name)
    ELSE IF i < Len(parts) THEN CommonRun(parts[i].name, parts[i + 1].name)
    ELSE 0

\* What ComputeMinChars would give the part at i now.
WidthNow(parts, i) ==
    IF 1 + NeighbourRun(parts, i) > Len(parts[i].name)
    THEN Len(parts[i].name)
    ELSE 1 + NeighbourRun(parts, i)

\* C34: in every state reached by inserts and deletes the minChars of each
\* part is at least what ComputeMinChars would give it against its current
\* neighbours, min(len(name), 1 + the longest common leading run with
\* either neighbour): a stale minChars is too large, never too small.
C34_NeverTooSmall ==
    \A e \in 1..Len(ens) :
        \A i \in 1..Len(ens[e].parts) :
            ens[e].parts[i].minChars >= WidthNow(ens[e].parts, i)

\* A deletion between two parts has made "get" and "getall" neighbours,
\* and "getall" keeps the minChars 5 it had beside "geta" where 4 would do.
C34_Witness ==
    /\ last.op = "DeleteEnsemblePart"
    /\ last.name = NameGeta
    /\ \E i \in 2..Len(ens[last.e].parts) :
           /\ ens[last.e].parts[i - 1].name = NameGet
           /\ ens[last.e].parts[i].name = NameGetall
           /\ ens[last.e].parts[i].minChars = 5
           /\ WidthNow(ens[last.e].parts, i) = 4

(* ------------------------------------------------------------------ *)
(* C35                                                                 *)
(* ------------------------------------------------------------------ *)

\* Stores of names with common prefixes under inserts, deletes and
\* lookups, and the `ensemble` verb creating sub-ensembles in them.
NextExact ==
    \/ \E t \in TopNames : CreateFirstEnsemble(t)
    \/ \E t \in TopNames : Itcl_CreateEnsemble(<<t, NameGeta>>, HostOk)
    \/ \E t \in TopNames, n \in {NameGet, NameGeta, NameGetall} :
           Itcl_AddEnsemblePart(<<t>>, n, NoUsage, TRUE)
    \/ \E e \in 1..MaxEns, pos \in 0..2 : DeleteEnsemblePartOp(e, pos)
    \/ \E e \in 1..MaxEns, s \in {NameGet, NameGeta, NameGetall} :
           LookupPart(e, s)
    \/ \E n \in TopNames \cup {NameGet, NameGetall} : Itcl_EnsembleCmd(3, n)
    \/ Itcl_EnsembleCmdReturn

SpecExact == Init /\ [][NextExact]_vars

\* C35: in every state reached by inserts and deletes the prefix lookup of
\* the full name of a part of a store returns that part, not the ambiguity
\* error, not NULL and no other part, whatever other parts have the name
\* as a prefix and however stale the widths are; and the `ensemble` verb
\* never reaches its Tcl_Panic.
C35_FullNameFound ==
    /\ \A e \in 1..Len(ens) :
           \A i \in 1..Len(ens[e].parts) :
               /\ FindEnsemblePart(ens[e].parts, ens[e].parts[i].name).status
                      = "OK"
               /\ FindEnsemblePart(ens[e].parts, ens[e].parts[i].name).pos
                      = i - 1
    /\ LookupSeen =>
           \A i \in 1..Len(ens[last.e].parts) :
               ens[last.e].parts[i].name = last.name
                   => last.status = "OK" /\ last.pos = i - 1
    /\ last.kind # "panic"

\* "get" has been looked up and found in a store where it stands before
\* "getall", whose minChars a deletion has left stale.
C35_Witness ==
    /\ LookupSeen
    /\ last.name = NameGet
    /\ last.status = "OK"
    /\ ens[last.e].removed
    /\ \E i \in 2..Len(ens[last.e].parts) :
           /\ last.pos = i - 2
           /\ ens[last.e].parts[i - 1].name = NameGet
           /\ ens[last.e].parts[i].name = NameGetall
           /\ ens[last.e].parts[i].minChars
                  > WidthNow(ens[last.e].parts, i)

(* ------------------------------------------------------------------ *)
(* C36                                                                 *)
(* ------------------------------------------------------------------ *)

\* The last lookup returned a part.
PartReturned == LookupSeen /\ last.status = "OK" /\ last.pos >= 0

\* C36: in every state reached by inserts and deletes, whenever
\* FindEnsemblePart(s) returns a part, s is a leading prefix of the name of
\* that part, and s is that name or no other part of the store has s as a
\* leading prefix.
C36_NeverOneOfSeveral ==
    PartReturned =>
        /\ last.pos + 1 \in Matching(ens[last.e].parts, last.name)
        /\ \/ ens[last.e].parts[last.pos + 1].name = last.name
           \/ Matching(ens[last.e].parts, last.name) = {last.pos + 1}

\* An abbreviation has been resolved to the only part it is a prefix of,
\* in a store of three parts or more from which a part was removed.
C36_Witness ==
    /\ PartReturned
    /\ ens[last.e].parts[last.pos + 1].name # last.name
    /\ Len(ens[last.e].parts) >= 3
    /\ ens[last.e].removed

\* ---------------------------------------------------------------------
\* C37  Insertion is order-independent.
\* ---------------------------------------------------------------------

\* The names and widths of a store, in order.
Widths(parts) ==
    [i \in 1..Len(parts) |-> <<parts[i].name, parts[i].minChars>>]

RECURSIVE InsertAll(_, _, _)
\* CreateEnsemblePart applied to the names of a sequence, one after the
\* other from position i on.
InsertAll(ensData, names, i) ==
    IF i > Len(names)
    THEN ensData
    ELSE InsertAll(CreateEnsemblePart(ensData, names[i]).ensData,
                   names, i + 1)

\* A sequence back to front.
Backwards(names) ==
    [i \in 1..Len(names) |-> names[Len(names) + 1 - i]]

\* C37: a store built by insertions alone, in whatever order they came,
\* has the names and the minChars that inserting the same names into an
\* empty ensemble in ascending order gives, and that inserting them in
\* descending order gives: the final store depends on the set of names
\* only.
C37_OrderIndependent ==
    \A e \in 1..numEnsembles :
        (~ens[e].freed /\ ~ens[e].removed) =>
            /\ Widths(ens[e].parts)
                   = Widths(InsertAll(FreshEnsemble,
                                      Names(ens[e].parts), 1).parts)
            /\ Widths(ens[e].parts)
                   = Widths(InsertAll(FreshEnsemble,
                                      Backwards(Names(ens[e].parts)),
                                      1).parts)

\* get was inserted after getall, set and sum into a store that no part
\* ever left: the order of insertion was neither ascending nor descending.
C37_Witness ==
    /\ last.op = "Itcl_AddEnsemblePart"
    /\ last.status = "OK"
    /\ last.name = NameGet
    /\ ~ens[1].removed
    /\ Len(ens[1].parts) >= 4
    /\ ens[1].parts[1].name = NameGet
    /\ ens[1].parts[2].name = NameGetall
    /\ ens[1].parts[2].minChars = 4

\* ---------------------------------------------------------------------
\* C38  Definition bodies are not transactional.
\* ---------------------------------------------------------------------

\* Bodies are evaluated, nested up to MaxDepth: they create ensembles and
\* sub-ensembles and define parts, and any of their verbs may fail.
NextBody ==
    \/ \E objc \in {1, 3}, n \in TopNames \cup {NameGet} :
           Itcl_EnsembleCmd(objc, n)
    \/ Itcl_EnsembleCmdReturn
    \/ \E objc \in 3..4, host \in {"args", "ok"} :
           Itcl_EnsPartCmd(objc, NameSet, host)
    \/ BodyVerbFails

SpecBody == Init /\ [][NextBody]_vars

\* The body of the innermost invocation has stopped on an error.
BodyStopped == frames # <<>> /\ frames[Len(frames)].err

\* This step is a verb of a body that ends with TCL_ERROR, or the return
\* of a nested `ensemble` invocation with TCL_ERROR.
VerbFailsInside == frames # <<>> /\ last'.status = "ERROR"

\* Every ensemble, every handle and every part there was is still there.
StillRegistered ==
    /\ numEnsembles' >= numEnsembles
    /\ \A h \in DOMAIN ensembles :
           h \in DOMAIN ensembles' /\ ensembles'[h] = ensembles[h]
    /\ \A e \in 1..numEnsembles :
           /\ ens'[e].freed = ens[e].freed
           /\ \A i \in 1..Len(ens[e].parts) :
                  \E j \in 1..Len(ens'[e].parts) :
                      /\ ens'[e].parts[j].name = ens[e].parts[i].name
                      /\ ens'[e].parts[j].flags = ens[e].parts[i].flags

\* C38: when a verb of a body fails the evaluation of that body stops; an
\* invocation whose body stopped returns TCL_ERROR, which stops the body
\* of the enclosing invocation in turn; and neither the failing verb nor
\* the returns on the way out take back an ensemble, a handle or a part
\* that was registered before.
C38_ErrorsLeaveDefinitions ==
    [][/\ VerbFailsInside =>
              /\ StillRegistered
              /\ IF Len(frames') < Len(frames)
                 THEN /\ BodyStopped
                      /\ frames' # <<>> => frames'[Len(frames')].err
                 ELSE frames'[Len(frames')].err
       /\ BodyStopped =>
              /\ Len(frames') = Len(frames) - 1
              /\ last'.op = "Itcl_EnsembleCmd"
              /\ last'.status = "ERROR"
              /\ <<ens, numEnsembles, ensembles, cmds>>'
                     = <<ens, numEnsembles, ensembles, cmds>>]_vars

\* The inner of two nested invocations has returned TCL_ERROR and stopped
\* the body of the outer one, and the sub-ensemble the inner invocation
\* created and a part defined with the `part` verb are still registered.
C38_Witness ==
    /\ last.op = "Itcl_EnsembleCmd"
    /\ last.kind = "body"
    /\ last.status = "ERROR"
    /\ Len(frames) = 1
    /\ frames[1].err
    /\ numEnsembles >= 2
    /\ last.e \in 1..numEnsembles
    /\ ens[last.e].parent.ens = frames[1].target
    /\ ~ens[last.e].freed
    /\ \E i \in 1..Len(ens[last.e].parts) :
           ens[last.e].parts[i].flags = ITCL_ENSEMBLE_ENSEMBLE
    /\ \E i \in 1..Len(ens[frames[1].target].parts) :
           ens[frames[1].target].parts[i].cmdPtr # 0

\* ---------------------------------------------------------------------
\* C39  Ensemble-style parts hold a procedure.
\* ---------------------------------------------------------------------

\* The host invokes the command AddEnsemblePart created for the part at
\* pos of ensemble e: EnsembleSubCmd gets that part, with the flags and the
\* clientData stored in it.
EnsembleSubCmdStored(e, pos, result) ==
    /\ Ready /\ BodyRuns
    /\ Usable(World, e)
    /\ pos \in 0..(Len(ens[e].parts) - 1)
    /\ ens[e].parts[pos + 1].flags # 0
    /\ \E r \in {EnsembleSubCmd(ens[e].parts[pos + 1].flags,
                                ens[e].parts[pos + 1].clientData, result)} :
           last' = Obs("EnsembleSubCmdStored", e, ens[e].parts[pos + 1].name,
                       r.status, r.invoked, pos,
                       <<ens[e].parts[pos + 1].flags,
                         ens[e].parts[pos + 1].clientData>>)
    /\ UNCHANGED <<ens, numEnsembles, ensembles, cmds, parserEnsData,
                   frames, del>>

\* Parts are defined by the `part` verb, the host failing or not, and by
\* Itcl_AddEnsemblePart with and without client data; the host invokes
\* them.
NextProc ==
    \/ \E n \in TopNames \cup {NameGet} : Itcl_EnsembleCmd(3, n)
    \/ Itcl_EnsembleCmdReturn
    \/ \E host \in {"nocmd", "ok"} : Itcl_EnsPartCmd(4, NameSet, host)
    \/ \E path \in PartPaths, clientData \in PartClientData :
           Itcl_AddEnsemblePartData(path, NameGetall, NoUsage, clientData,
                                    TRUE)
    \/ \E e \in 1..MaxEns, pos \in 0..3, result \in HandlerResults :
           EnsembleSubCmdStored(e, pos, result)

SpecProc == Init /\ [][NextProc]_vars

\* The part that the operation just observed added.
AddedPart ==
    CHOOSE part \in {ens[last.e].parts[i] : i \in 1..Len(ens[last.e].parts)} :
        part.name = last.name

\* C39: every part flagged ensemble-style holds a procedure reference that
\* is not NULL; a part added by Itcl_AddEnsemblePart is flagged custom and
\* not ensemble-style; a part defined by the `part` verb is flagged
\* ensemble-style; and the shim, run on a part of the store, never returns
\* through its branch for a NULL procedure.
C39_EnsembleStyleHasProc ==
    /\ \A e \in 1..numEnsembles :
           ~ens[e].freed =>
               \A i \in 1..Len(ens[e].parts) :
                   /\ ens[e].parts[i].flags
                          \in {0, ITCL_ENSEMBLE_CUSTOM,
                               ITCL_ENSEMBLE_ENSEMBLE}
                   /\ ens[e].parts[i].flags = ITCL_ENSEMBLE_ENSEMBLE
                          => ens[e].parts[i].clientData # 0
    /\ (last.op = "Itcl_AddEnsemblePart" /\ last.kind = "added")
           => AddedPart.flags = ITCL_ENSEMBLE_CUSTOM
    /\ (last.op = "Itcl_EnsPartCmd" /\ last.kind = "added")
           => AddedPart.flags = ITCL_ENSEMBLE_ENSEMBLE
    /\ last.op = "EnsembleSubCmdStored" => last.kind # "none"

\* The shim ran on an ensemble-style part of a store that also holds a
\* native part with a NULL client data and the part of a sub-ensemble, and
\* invoked the procedure.
C39_Witness ==
    /\ last.op = "EnsembleSubCmdStored"
    /\ last.cands[1] = ITCL_ENSEMBLE_ENSEMBLE
    /\ last.kind = "Tcl_InvokeNamespaceProc"
    /\ \E i \in 1..Len(ens[last.e].parts) :
           /\ ens[last.e].parts[i].flags = ITCL_ENSEMBLE_CUSTOM
           /\ ens[last.e].parts[i].clientData = 0
    /\ \E i \in 1..Len(ens[last.e].parts) :
           /\ ens[last.e].parts[i].flags = 0
           /\ ens[last.e].parts[i].cmdPtr # 0

\* ---------------------------------------------------------------------
\* C40  Lookups and usage operations are read-only.
\* ---------------------------------------------------------------------

\* FindEnsemblePartIndex(ensData, partName, &pos) on ensemble e.
FindEnsemblePartIndexOp(e, partName) ==
    /\ Ready /\ BodyRuns
    /\ Usable(World, e)
    /\ \E at \in {FindEnsemblePartIndex(ens[e].parts, partName)} :
           last' = Obs("FindEnsemblePartIndex", e, partName,
                       IF at.found THEN "OK" ELSE "ERROR", "", at.pos, <<>>)
    /\ UNCHANGED <<ens, numEnsembles, ensembles, cmds, parserEnsData,
                   frames, del>>

\* Ensembles, sub-ensembles and parts are defined, inside bodies and out,
\* parts are deleted, and between these steps every lookup and usage
\* operation is called with names that are found, abbreviated, ambiguous
\* and missing.
NextRead ==
    \/ \E n \in TopNames : Itcl_EnsembleCmd(3, n)
    \/ Itcl_EnsembleCmdReturn
    \/ \E path \in SubPaths({NameGet}) : Itcl_CreateEnsemble(path, HostOk)
    \/ \E path \in PartPaths, n \in {NameGetall, NameAtError} :
           Itcl_AddEnsemblePart(path, n, NoUsage, TRUE)
    \/ \E e \in 1..MaxEns, pos \in 0..2 : DeleteEnsemblePartOp(e, pos)
    \/ \E e \in 1..MaxEns, s \in {<<103>>, NameGet, NameSet} :
           FindEnsemblePartIndexOp(e, s)
    \/ \E e \in 1..MaxEns, s \in {<<103>>, NameGet, NameSet} :
           LookupPart(e, s)
    \/ \E path \in LookupPaths({NameGet}) : FindEnsembleOp(path)
    \/ \E parsable \in BOOLEAN, path \in LookupPaths({NameGet}),
          n \in {<<103>>, NameGetall} :
           Itcl_GetEnsemblePart(parsable, path, n)
    \/ \E parsable \in BOOLEAN, path \in LookupPaths({NameGet}) :
           Itcl_GetEnsembleUsage(parsable, path)
    \/ \E objv1 \in TopNames \cup {NameBogus}, objc \in 2..3 :
           EnsembleUnknownCmd(objv1, objc)

SpecRead == Init /\ [][NextRead]_vars

\* The operations that look up and describe.
ReadOps ==
    {"FindEnsemblePartIndex", "FindEnsemblePart", "FindEnsemble",
     "Itcl_GetEnsemblePart", "Itcl_GetEnsembleUsage", "EnsembleUnknownCmd"}

\* C40: a step of FindEnsemblePartIndex, FindEnsemblePart, FindEnsemble,
\* Itcl_GetEnsemblePart, Itcl_GetEnsembleUsage or the unknown-handler
\* (which calls GetEnsembleUsage), whatever it returns, leaves every part
\* store, the handle map, the id counter, the host's commands and the
\* parser's current ensemble as they were.
C40_LookupsReadOnly ==
    [][last'.op \in ReadOps =>
           /\ ens' = ens
           /\ ensembles' = ensembles
           /\ numEnsembles' = numEnsembles
           /\ cmds' = cmds
           /\ parserEnsData' = parserEnsData
           /\ frames' = frames]_vars

\* A lookup has just failed inside a body, with a current ensemble whose
\* store holds several parts and has lost one.
C40_Witness ==
    /\ last.op \in ReadOps
    /\ last.status = "ERROR"
    /\ parserEnsData # 0
    /\ frames # <<>>
    /\ Len(ens[parserEnsData].parts) >= 2
    /\ ens[parserEnsData].removed

====
